---- MODULE Spec2Model ----
(***************************************************************************)
(* Figma MCP server: the memoization layer (MemoryCacheProvider,           *)
(* CacheManager, FigmaClient.getFile and the caching tool handlers) and    *)
(* the semantic role classifier of the node mapper.                        *)
(*                                                                         *)
(* Strings are sequences of characters; a character is a one-element       *)
(* TLA+ string, except "LF" which stands for the line feed U+000A.         *)
(* A TypeScript value that may be `undefined` is a set of at most one      *)
(* element: {} is undefined, {n} is the number n.                          *)
(***************************************************************************)
EXTENDS Integers, Sequences, FiniteSets, TLC

VARIABLES
    cache,        \* MemoryCacheProvider.cache : key -> CacheEntry
    accessOrder,  \* MemoryCacheProvider.accessOrder
    hits,         \* MemoryCacheProvider.stats.hits
    misses,       \* MemoryCacheProvider.stats.misses
    now,          \* Date.now(), in milliseconds
    ret,          \* the last call made directly on the store and what it returned
    lastAccess,   \* history: rank of each stored key by its last access
    enabled,      \* CacheManager.config.enabled
    reqs,         \* the tool calls in flight: position, input and locals of each
    started,      \* number of tool calls started so far
    node,         \* the node normalizeNode classified last ({} before the first)
    role,         \* the role detection result stored for it
    input,        \* the argument a mapper function is called with
    output        \* what it returned ({} before it returns)

storeVars == <<cache, accessOrder, hits, misses, now, ret, lastAccess, enabled>>
appVars == <<reqs, started>>
roleVars == <<node, role>>
pureVars == <<input, output>>
vars == <<storeVars, appVars, roleVars, pureVars>>

\* what the steps of each part of the program leave alone
outsideStore == <<appVars, roleVars, pureVars>>
outsideApp == <<roleVars, pureVars>>
outsideRole == <<storeVars, appVars, pureVars>>
outsidePure == <<storeVars, appVars, roleVars>>

(***************************************************************************)
(* Bounds                                                                  *)
(***************************************************************************)
MaxSize == 2        \* maxSize handed to the MemoryCacheProvider constructor
MaxStat == 2        \* cap on hits + misses between two clear() calls
MaxNow == 2000      \* the clock stops advancing here (ms)
TickMs == 1000      \* one clock step (ms)
MaxMgrNow == 700000 \* the same two, where the TTLs are those of the CacheConfig
MgrTickMs == 350000
ColorSteps == 510   \* colour channels are taken at 0, 1/ColorSteps, ..., 1
MaxSpacings == 3    \* spacing values handed to detectSpacingSystem
MaxChildren == 4    \* children of a node handed to the role classifier
NumReqs == 2        \* tool calls made in one run, all of which can be in flight together

Null == "null"

\* keys and glob patterns the direct store calls are made with
StoreKeys == { <<"a", "b">>, <<"a", ".">>, <<"a", "LF", "b">> }
Patterns == { <<"a", "*">>, <<"a", ".">>, <<"*">>, <<"a">> }
Values == { "v1", "v2" }
TTLs == { {1} }

\* keys the CacheManager is called with directly
MgrKeys == { <<"f", ":", "latest", ":", "file">>, <<"f", ":", "latest", ":", "frames">> }

(***************************************************************************)
(* Sequence helpers (Array.prototype)                                      *)
(***************************************************************************)
Range(s) == { s[i] : i \in DOMAIN s }

\* Array.prototype.indexOf, 1-based; 0 when absent (-1 in the source)
indexOf(s, x) ==
    IF x \in Range(s) THEN CHOOSE i \in DOMAIN s : s[i] = x /\ \A j \in 1..(i - 1) : s[j] # x
    ELSE 0

\* Array.prototype.splice(index, 1)
splice1(s, i) == SubSeq(s, 1, i - 1) \o SubSeq(s, i + 1, Len(s))

(***************************************************************************)
(* MemoryCacheProvider: LRU helpers                                        *)
(***************************************************************************)
\* mutant: the key is left where it is in the list
removeFromAccessOrder_Noop(order, key) == order

removeFromAccessOrder(order, key) ==
    LET index == indexOf(order, key)
    IN  IF index > 0 THEN splice1(order, index) ELSE order

\* mutant: a key already in the list keeps its place (insertion order, FIFO)
updateAccessOrder_KeepPlace(order, key) ==
    IF key \in Range(order) THEN order ELSE Append(order, key)

updateAccessOrder(order, key) == Append(removeFromAccessOrder(order, key), key)

MapDelete(c, key) == [k \in (DOMAIN c) \ {key} |-> c[k]]
MapSet(c, key, entry) == [k \in (DOMAIN c) \cup {key} |-> IF k = key THEN entry ELSE c[k]]

\* mutant: nothing is evicted
evictLRU_Nothing(c, order) == <<c, order>>

\* evictLRU: the provider state <<cache, accessOrder>> after the call
evictLRU(c, order) ==
    IF Len(order) > 0
    THEN <<MapDelete(c, order[1]), Tail(order)>>
    ELSE <<c, order>>

\* age > entry.ttl * 1000; a comparison with NaN (ttl undefined) is false
IsExpired(entry, t) == \E n \in entry.ttl : t - entry.timestamp > n * 1000


(***************************************************************************)
(* MemoryCacheProvider.patternToRegex and RegExp.prototype.test            *)
(***************************************************************************)
\* the characters of the class [.+?^${}()|[\]\\]
RegexSpecial == { ".", "+", "?", "^", "$", "{", "}", "(", ")", "|", "[", "]", "\\" }

\* the characters `.` does not match in a RegExp without the s flag
LineTerminators == { "LF", "CR", "LS", "PS" }

\* pattern.replace(/[.+?^${}()|[\]\\]/g, '\\$&')
RECURSIVE escapeSpecial(_)
escapeSpecial(p) ==
    IF p = <<>> THEN <<>>
    ELSE (IF Head(p) \in RegexSpecial THEN <<"\\", Head(p)>> ELSE <<Head(p)>>)
         \o escapeSpecial(Tail(p))

\* .replace(/\*/g, '.*')
RECURSIVE replaceStar(_)
replaceStar(p) ==
    IF p = <<>> THEN <<>>
    ELSE (IF Head(p) = "*" THEN <<".", "*">> ELSE <<Head(p)>>) \o replaceStar(Tail(p))

\* new RegExp(source): the atoms of the source text between ^ and $.  The
\* source holds only escaped characters, `.*` and ordinary characters.
RECURSIVE parseRegex(_)
parseRegex(src) ==
    IF src = <<>> THEN <<>>
    ELSE IF Head(src) = "\\"
         THEN <<[kind |-> "lit", ch |-> src[2]]>> \o parseRegex(SubSeq(src, 3, Len(src)))
    ELSE IF Head(src) = "." /\ Len(src) >= 2 /\ src[2] = "*"
         THEN <<[kind |-> "dotstar", ch |-> "."]>> \o parseRegex(SubSeq(src, 3, Len(src)))
    ELSE <<[kind |-> "lit", ch |-> Head(src)]>> \o parseRegex(Tail(src))

patternToRegex(pattern) == parseRegex(replaceStar(escapeSpecial(pattern)))

\* regex.test(key) for a regex anchored with ^ and $
RECURSIVE regexTest(_, _)
regexTest(regex, key) ==
    IF regex = <<>> THEN key = <<>>
    ELSE IF Head(regex).kind = "lit"
         THEN key # <<>> /\ Head(key) = Head(regex).ch /\ regexTest(Tail(regex), Tail(key))
    ELSE \/ regexTest(Tail(regex), key)
         \/ (key # <<>> /\ Head(key) \notin LineTerminators /\ regexTest(regex, Tail(key)))

(***************************************************************************)
(* MemoryCacheProvider: the public methods.  No method awaits, so each     *)
(* runs to completion on the event loop; a method is one atomic step.      *)
(* P is the provider state, the result is [P |-> state after, result].     *)
(***************************************************************************)
EmptyMap == [k \in {} |-> Null]

NewProvider == [cache |-> EmptyMap, accessOrder |-> <<>>, hits |-> 0, misses |-> 0]

\* mutant: an expired entry is reported as a miss but left in the store
providerGet_KeepExpired(P, key, t) ==
    IF key \in DOMAIN P.cache /\ ~IsExpired(P.cache[key], t)
    THEN [P |-> [P EXCEPT !.accessOrder = updateAccessOrder(@, key), !.hits = @ + 1],
          result |-> P.cache[key].data]
    ELSE [P |-> [P EXCEPT !.misses = @ + 1], result |-> Null]

providerGet(P, key, t) ==
    IF key \notin DOMAIN P.cache
    THEN [P |-> [P EXCEPT !.misses = @ + 1], result |-> Null]
    ELSE IF IsExpired(P.cache[key], t)
    THEN [P |-> [P EXCEPT !.cache = MapDelete(@, key),
                          !.accessOrder = removeFromAccessOrder(@, key),
                          !.misses = @ + 1],
          result |-> Null]
    ELSE [P |-> [P EXCEPT !.accessOrder = updateAccessOrder(@, key), !.hits = @ + 1],
          result |-> P.cache[key].data]

\* mutant: a key that is already stored keeps its old entry
providerSet_IfAbsent(P, key, value, ttl, t, maxSize) ==
    LET ev == IF Cardinality(DOMAIN P.cache) >= maxSize /\ key \notin DOMAIN P.cache
              THEN evictLRU(P.cache, P.accessOrder)
              ELSE <<P.cache, P.accessOrder>>
        entry == IF key \in DOMAIN P.cache THEN P.cache[key]
                 ELSE [data |-> value, timestamp |-> t, ttl |-> ttl]
    IN  [P |-> [P EXCEPT !.cache = MapSet(ev[1], key, entry),
                         !.accessOrder = updateAccessOrder(ev[2], key)],
         result |-> Null]

\* mutant: a full store evicts on every set, also of a key it holds
providerSet_EvictWhenFull(P, key, value, ttl, t, maxSize) ==
    LET ev == IF Cardinality(DOMAIN P.cache) >= maxSize
              THEN evictLRU(P.cache, P.accessOrder)
              ELSE <<P.cache, P.accessOrder>>
        entry == [data |-> value, timestamp |-> t, ttl |-> ttl]
    IN  [P |-> [P EXCEPT !.cache = MapSet(ev[1], key, entry),
                         !.accessOrder = updateAccessOrder(ev[2], key)],
         result |-> Null]

providerSet(P, key, value, ttl, t, maxSize) ==
    LET ev == IF Cardinality(DOMAIN P.cache) >= maxSize /\ key \notin DOMAIN P.cache
              THEN evictLRU(P.cache, P.accessOrder)
              ELSE <<P.cache, P.accessOrder>>
        entry == [data |-> value, timestamp |-> t, ttl |-> ttl]
    IN  [P |-> [P EXCEPT !.cache = MapSet(ev[1], key, entry),
                         !.accessOrder = updateAccessOrder(ev[2], key)],
         result |-> Null]

providerDelete(P, key) ==
    [P |-> [P EXCEPT !.cache = MapDelete(@, key),
                     !.accessOrder = removeFromAccessOrder(@, key)],
     result |-> Null]

\* the loop of invalidate over the keys still to visit
RECURSIVE invalidateLoop(_, _, _, _)
invalidateLoop(P, regex, todo, count) ==
    IF todo = {} THEN [P |-> P, result |-> count]
    ELSE LET key == CHOOSE k \in todo : TRUE
         IN  IF regexTest(regex, key)
             THEN invalidateLoop([P EXCEPT !.cache = MapDelete(@, key),
                                            !.accessOrder = removeFromAccessOrder(@, key)],
                                 regex, todo \ {key}, count + 1)
             ELSE invalidateLoop(P, regex, todo \ {key}, count)

providerInvalidate(P, pattern) ==
    invalidateLoop(P, patternToRegex(pattern), DOMAIN P.cache, 0)

providerClear(P) == [P |-> NewProvider, result |-> Null]

providerSize(P) == Cardinality(DOMAIN P.cache)

(***************************************************************************)
(* The store as the variables hold it, and the history of accesses         *)
(***************************************************************************)
Provider == [cache |-> cache, accessOrder |-> accessOrder, hits |-> hits, misses |-> misses]

Install(P) ==
    /\ cache' = P.cache
    /\ accessOrder' = P.accessOrder
    /\ hits' = P.hits
    /\ misses' = P.misses

\* lastAccess after a call: `touched` are the keys the call accessed (set, or
\* read without expiry), `stored` the keys held afterwards.  Ranks are kept
\* dense (1..n) so that the history stays finite.
Accessed(la, touched, stored) ==
    LET top == Cardinality(DOMAIN la) + 1
        raw == [k \in stored |-> IF k \in touched \/ k \notin DOMAIN la THEN top ELSE la[k]]
    IN  [k \in stored |-> Cardinality({ j \in stored : raw[j] <= raw[k] })]


(***************************************************************************)
(* CacheManager                                                            *)
(***************************************************************************)
\* CacheConfig.ttlByType and defaultTTL (seconds)
FileTTL == 600
ComponentsTTL == 300
TokensTTL == 300
PlanTTL == 180
DefaultTTL == 300

ttlByType == [file |-> FileTTL, components |-> ComponentsTTL, tokens |-> TokensTTL, plan |-> PlanTTL]

\* the kinds the handlers and the client pass to CacheManager.set
Kinds == { "file", "components", "tokens", "plan", "frames", "overview" }

\* type ? this.config.ttlByType[type] : this.config.defaultTTL
\* (`type` is {} when the argument is omitted; a property the object does
\* not have reads as undefined)
mgrTTL(type) ==
    IF type = {} THEN {DefaultTTL}
    ELSE LET ty == CHOOSE x \in type : TRUE
         IN  IF ty \in DOMAIN ttlByType THEN {ttlByType[ty]} ELSE {}

\* mutant: the enabled flag is not consulted
mgrGet_IgnoreFlag(P, on, key, t) == providerGet(P, key, t)

mgrGet(P, on, key, t) ==
    IF ~on THEN [P |-> P, result |-> Null]
    ELSE providerGet(P, key, t)

mgrSet(P, on, key, value, type, t, maxSize) ==
    IF ~on THEN [P |-> P, result |-> Null]
    ELSE providerSet(P, key, value, mgrTTL(type), t, maxSize)

(***************************************************************************)
(* Specification Spec: one MemoryCacheProvider of capacity MaxSize under   *)
(* direct calls.                                                           *)
(***************************************************************************)
\* ret after a call: the method, its key or pattern, its other arguments (for
\* a direct set also whether the key was stored before), what it returned,
\* the keys it removed from the entry map, and a bit that flips at every call
Call(op, key, arg, r) ==
    [op |-> op, key |-> key, arg |-> arg, result |-> r.result,
     removed |-> (DOMAIN cache) \ (DOMAIN r.P.cache), n |-> 1 - ret.n]

\* no mapper function is being called
NoInput ==
    /\ input = {}
    /\ output = {}

\* no tool call has been made
IdleReq == [pc |-> "idle", input |-> {}, file |-> {}, cached |-> FALSE, response |-> {}]
NoCalls ==
    /\ reqs = [r \in 1..NumReqs |-> IdleReq]
    /\ started = 0
    /\ node = {}
    /\ role = {}

\* what a get records of the call made before it
Previous == [op |-> ret.op, key |-> ret.key, removed |-> ret.removed]

\* the server is idle: an empty enabled cache and no call of any kind
NothingRunning ==
    /\ cache = EmptyMap
    /\ accessOrder = <<>>
    /\ hits = 0
    /\ misses = 0
    /\ now = 0
    /\ ret = [op |-> "new", key |-> <<>>, arg |-> {}, result |-> Null, removed |-> {}, n |-> 0]
    /\ lastAccess = EmptyMap
    /\ enabled = TRUE
    /\ NoCalls

Init ==
    /\ cache = EmptyMap
    /\ accessOrder = <<>>
    /\ hits = 0
    /\ misses = 0
    /\ now = 0
    /\ ret = [op |-> "new", key |-> <<>>, arg |-> {}, result |-> Null, removed |-> {}, n |-> 0]
    /\ lastAccess = EmptyMap
    /\ enabled = TRUE
    /\ NoCalls
    /\ NoInput

Get(key) ==
    /\ hits + misses < MaxStat
    /\ LET r == providerGet(Provider, key, now)
       IN  /\ Install(r.P)
           /\ ret' = Call("get", key, Previous, r)
           /\ lastAccess' = Accessed(lastAccess, IF r.P.hits > hits THEN {key} ELSE {},
                                     DOMAIN r.P.cache)
    /\ UNCHANGED <<now, enabled, outsideStore>>

Set(key, value, ttl) ==
    /\ LET r == providerSet(Provider, key, value, ttl, now, MaxSize)
       IN  /\ Install(r.P)
           /\ ret' = Call("set", key, <<value, ttl, key \in DOMAIN cache>>, r)
           /\ lastAccess' = Accessed(lastAccess, {key}, DOMAIN r.P.cache)
    /\ UNCHANGED <<now, enabled, outsideStore>>

Delete(key) ==
    /\ LET r == providerDelete(Provider, key)
       IN  /\ Install(r.P)
           /\ ret' = Call("delete", key, {}, r)
           /\ lastAccess' = Accessed(lastAccess, {}, DOMAIN r.P.cache)
    /\ UNCHANGED <<now, enabled, outsideStore>>

Invalidate(pattern) ==
    /\ LET r == providerInvalidate(Provider, pattern)
       IN  /\ Install(r.P)
           /\ ret' = Call("invalidate", pattern, {}, r)
           /\ lastAccess' = Accessed(lastAccess, {}, DOMAIN r.P.cache)
    /\ UNCHANGED <<now, enabled, outsideStore>>

Clear ==
    /\ LET r == providerClear(Provider)
       IN  /\ Install(r.P)
           /\ ret' = Call("clear", <<>>, {}, r)
           /\ lastAccess' = Accessed(lastAccess, {}, DOMAIN r.P.cache)
    /\ UNCHANGED <<now, enabled, outsideStore>>

\* time passes; nothing in the program runs
Tick ==
    /\ now + TickMs <= MaxNow
    /\ now' = now + TickMs
    /\ UNCHANGED <<cache, accessOrder, hits, misses, ret, lastAccess, enabled, outsideStore>>

Next ==
    \/ \E k \in StoreKeys : Get(k)
    \/ \E k \in StoreKeys, v \in Values, t \in TTLs : Set(k, v, t)
    \/ \E k \in StoreKeys : Delete(k)
    \/ \E p \in Patterns : Invalidate(p)
    \/ Clear
    \/ Tick

Spec == Init /\ [][Next]_vars

(***************************************************************************)
(* Specification SpecMgr: a CacheManager built on a provider that its      *)
(* creator also writes to directly (constructor(config, provider)); the    *)
(* enabled flag is fixed at construction.                                  *)
(***************************************************************************)
InitMgr ==
    /\ cache = EmptyMap
    /\ accessOrder = <<>>
    /\ hits = 0
    /\ misses = 0
    /\ now = 0
    /\ ret = [op |-> "new", key |-> <<>>, arg |-> {}, result |-> Null, removed |-> {}, n |-> 0]
    /\ lastAccess = EmptyMap
    /\ enabled \in BOOLEAN
    /\ NoCalls
    /\ NoInput

\* provider.set called by the owner of the provider
DirectSet(key, value) ==
    /\ LET r == providerSet(Provider, key, value, {DefaultTTL}, now, MaxSize)
       IN  /\ Install(r.P)
           /\ ret' = Call("set", key, <<value, {DefaultTTL}>>, r)
           /\ lastAccess' = Accessed(lastAccess, {key}, DOMAIN r.P.cache)
    /\ UNCHANGED <<now, enabled, outsideStore>>

MgrGet(key) ==
    /\ hits + misses < MaxStat
    /\ LET r == mgrGet(Provider, enabled, key, now)
       IN  /\ Install(r.P)
           /\ ret' = Call("mgrGet", key, {}, r)
           /\ lastAccess' = Accessed(lastAccess, IF r.P.hits > hits THEN {key} ELSE {},
                                     DOMAIN r.P.cache)
    /\ UNCHANGED <<now, enabled, outsideStore>>

MgrSet(key, value, type) ==
    /\ LET r == mgrSet(Provider, enabled, key, value, type, now, MaxSize)
       IN  /\ Install(r.P)
           /\ ret' = Call("mgrSet", key, <<value, type>>, r)
           /\ lastAccess' = Accessed(lastAccess, IF enabled THEN {key} ELSE {},
                                     DOMAIN r.P.cache)
    /\ UNCHANGED <<now, enabled, outsideStore>>

MgrTick ==
    /\ now + MgrTickMs <= MaxMgrNow
    /\ now' = now + MgrTickMs
    /\ UNCHANGED <<cache, accessOrder, hits, misses, ret, lastAccess, enabled, outsideStore>>

NextMgr ==
    \/ \E k \in MgrKeys, v \in Values : DirectSet(k, v)
    \/ \E k \in MgrKeys : MgrGet(k)
    \/ \E k \in MgrKeys, v \in Values, ty \in {{}} \cup { {x} : x \in Kinds } : MgrSet(k, v, ty)
    \/ MgrTick

SpecMgr == InitMgr /\ [][NextMgr]_vars


(***************************************************************************)
(* The upstream design files.  A file is its node table and the id of its  *)
(* document node; it does not change while the program runs.               *)
(***************************************************************************)
NodeOf(name, type, children) == [name |-> name, type |-> type, children |-> children]

AppFile == "abc123"

DocLatest ==
    ("0:0" :> NodeOf(<<"D", "o", "c">>, "DOCUMENT", <<"1:1", "2:1">>)) @@
    ("1:1" :> NodeOf(<<"P", "1">>, "CANVAS", <<"1:2", "1:4">>)) @@
    ("1:2" :> NodeOf(<<"L", "o", "g", "i", "n">>, "FRAME", <<"1:3">>)) @@
    ("1:3" :> NodeOf(<<"b", "t", "n">>, "FRAME", <<>>)) @@
    ("1:4" :> NodeOf(<<"C", "a", "r", "d">>, "COMPONENT", <<>>)) @@
    ("2:1" :> NodeOf(<<"P", "2">>, "CANVAS", <<"2:2">>)) @@
    ("2:2" :> NodeOf(<<"C", "a", "r", "d">>, "INSTANCE", <<>>))

DocOld ==
    ("0:0" :> NodeOf(<<"D", "o", "c">>, "DOCUMENT", <<"1:1">>)) @@
    ("1:1" :> NodeOf(<<"P", "1">>, "CANVAS", <<"1:2", "1:3">>)) @@
    ("1:2" :> NodeOf(<<"L", "o", "g", "i", "n">>, "FRAME", <<>>)) @@
    ("1:3" :> NodeOf(<<"L", "o", "g", "o", "u", "t">>, "FRAME", <<>>))

\* GET /files/{fileKey}?version=...: the response body
Upstream(fk, version) ==
    [root |-> "0:0", nodes |-> IF version = {} THEN DocLatest ELSE DocOld]

(***************************************************************************)
(* String and array helpers of the handlers                                *)
(***************************************************************************)
UpperCase == <<"A", "B", "C", "D", "E", "F", "G", "H", "I", "J", "K", "L", "M",
               "N", "O", "P", "Q", "R", "S", "T", "U", "V", "W", "X", "Y", "Z">>
LowerCase == <<"a", "b", "c", "d", "e", "f", "g", "h", "i", "j", "k", "l", "m",
               "n", "o", "p", "q", "r", "s", "t", "u", "v", "w", "x", "y", "z">>

\* String.prototype.toLowerCase
toLowerCase(str) ==
    [i \in 1..Len(str) |->
        IF str[i] \in Range(UpperCase) THEN LowerCase[indexOf(UpperCase, str[i])] ELSE str[i]]

\* String.prototype.includes
includes(str, sub) ==
    \E i \in 0..(Len(str) - Len(sub)) : SubSeq(str, i + 1, i + Len(sub)) = sub

\* Array.prototype.slice(start, end), 0-based, end exclusive
slice(arr, start, end) ==
    LET last == IF end < Len(arr) THEN end ELSE Len(arr)
    IN  IF start >= last THEN <<>> ELSE SubSeq(arr, start + 1, last)

\* Array.prototype.map with an index function
MapSeq(arr, F(_)) == [i \in 1..Len(arr) |-> F(arr[i])]

(***************************************************************************)
(* Cache keys                                                              *)
(***************************************************************************)
KeyBase(fk, version, operation) ==
    <<fk, ":", IF version = {} THEN "latest" ELSE CHOOSE v \in version : TRUE,
      ":", operation>>

\* mutant: the version is left out of the key
fileKey_NoVersion(fk, version) == KeyBase(fk, {}, "file")

\* CacheManager.fileKey
fileKey(fk, version) == KeyBase(fk, version, "file")

\* CacheManager.componentsKey called without filters
componentsKey(fk, version) == KeyBase(fk, version, "components")

\* CacheManager.framesKey and CacheManager.overviewKey, called without filters
framesKey(fk, version) == KeyBase(fk, version, "frames")
overviewKey(fk, version) == KeyBase(fk, version, "overview")

(***************************************************************************)
(* The tool handlers: what each computes from a file, caches and returns   *)
(***************************************************************************)
DefaultLimit == 100

\* the BFS loop of traverseForFrames / traverseForComponents
RECURSIVE traverseCollect(_, _, _, _)
traverseCollect(nodes, queue, types, found) ==
    IF queue = <<>> THEN found
    ELSE LET id == Head(queue)
         IN  traverseCollect(nodes, Tail(queue) \o nodes[id].children, types,
                             IF nodes[id].type \in types THEN Append(found, id) ELSE found)

traverseForFrames(file) == traverseCollect(file.nodes, <<file.root>>, {"FRAME"}, <<>>)

ComponentTypes == { "COMPONENT", "COMPONENT_SET", "INSTANCE" }

traverseForComponents(file) == traverseCollect(file.nodes, <<file.root>>, ComponentTypes, <<>>)

\* buildComponentHierarchy: the pending calls of traverse(node, parentId)
RECURSIVE hierarchyTraverse(_, _, _)
hierarchyTraverse(nodes, pending, hierarchy) ==
    IF pending = <<>> THEN hierarchy
    ELSE LET id == Head(pending)[1]
             parentId == Head(pending)[2]
             calls == [i \in 1..Len(nodes[id].children) |-> <<nodes[id].children[i], {id}>>]
         IN  hierarchyTraverse(nodes, calls \o Tail(pending),
                               IF parentId # {}
                               THEN MapSet(hierarchy, id, CHOOSE x \in parentId : TRUE)
                               ELSE hierarchy)

buildComponentHierarchy(file) == hierarchyTraverse(file.nodes, <<<<file.root, {}>>>>, EmptyMap)

\* FrameInfo / ComponentInfo of one node: id, name, type, parentId and the ids
\* of the children of the listed types
InfoOf(file, hierarchy, types, id) ==
    LET IsListed(c) == file.nodes[c].type \in types
    IN  [id |-> id,
         name |-> file.nodes[id].name,
         type |-> file.nodes[id].type,
         parentId |-> IF id \in DOMAIN hierarchy THEN {hierarchy[id]} ELSE {},
         childrenIds |-> SelectSeq(file.nodes[id].children, IsListed)]

frameInfos(file) ==
    LET hierarchy == buildComponentHierarchy(file)
        Info(id) == InfoOf(file, hierarchy, {"FRAME"}, id)
    IN  MapSeq(traverseForFrames(file), Info)

componentInfos(file) ==
    LET hierarchy == buildComponentHierarchy(file)
        Info(id) == InfoOf(file, hierarchy, ComponentTypes, id)
    IN  MapSeq(traverseForComponents(file), Info)

\* handleGetFigmaPageOverview: the summaries of the pages left by the pageId
\* filter
pageSummaries(file, pageId) ==
    LET IsCanvas(c) == file.nodes[c].type = "CANVAS"
        IsWanted(c) == pageId = {} \/ c \in pageId
        filteredPages == SelectSeq(SelectSeq(file.nodes[file.root].children, IsCanvas), IsWanted)
        Summary(id) == [id |-> id, name |-> file.nodes[id].name,
                        nodeCount |-> Len(file.nodes[id].children)]
    IN  MapSeq(filteredPages, Summary)

\* slice(offset, offset + limit), totalCount and hasMore
Paginate(list, limit, offset) ==
    LET lim == IF limit = {} THEN DefaultLimit ELSE CHOOSE l \in limit : TRUE
        page == slice(list, offset, offset + lim)
    IN  [ok |-> TRUE, items |-> page, totalCount |-> Len(list),
         hasMore |-> offset + Len(page) < Len(list)]

\* the name filter of handleGetFrameMap and handleGetComponentMap
filterByName(list, name) ==
    IF name = {} \/ name = {<<>>} THEN list
    ELSE LET lowerFilter == toLowerCase(CHOOSE n \in name : TRUE)
             Matches(item) == includes(toLowerCase(item.name), lowerFilter)
         IN  SelectSeq(list, Matches)

filterByType(list, type) ==
    IF type = {} THEN list
    ELSE LET Matches(item) == item.type \in type
         IN  SelectSeq(list, Matches)

ToolInput(tool, version, pageId, name, type, limit, offset) ==
    [tool |-> tool, version |-> version, pageId |-> pageId, name |-> name, type |-> type,
     limit |-> limit, offset |-> offset]

\* the inputs the tools are called with
ToolInputs ==
    { ToolInput("overview", {}, {}, {}, {}, {}, 0),
      ToolInput("overview", {}, {"2:1"}, {}, {}, {}, 0),
      ToolInput("frames", {"7"}, {}, {<<"L", "o", "g">>}, {}, {1}, 0),
      ToolInput("components", {}, {}, {}, {"INSTANCE"}, {}, 0) }

toolKey(in) ==
    CASE in.tool = "overview" -> overviewKey(AppFile, in.version)
      [] in.tool = "frames" -> framesKey(AppFile, in.version)
      [] in.tool = "components" -> componentsKey(AppFile, in.version)

\* the collection a handler builds from the file and hands to cacheManager.set
toolCompute(in, file) ==
    CASE in.tool = "overview" -> pageSummaries(file, in.pageId)
      [] in.tool = "frames" -> frameInfos(file)
      [] in.tool = "components" -> componentInfos(file)

\* the response a handler builds from the collection it holds
toolRespond(in, list) ==
    CASE in.tool = "overview" -> Paginate(list, in.limit, in.offset)
      [] in.tool = "frames" -> Paginate(filterByName(list, in.name), in.limit, in.offset)
      [] in.tool = "components" ->
            Paginate(filterByType(filterByName(list, in.name), in.type), in.limit, in.offset)

\* what a request computed with no cache in its way would be answered
Fresh(in) == toolRespond(in, toolCompute(in, Upstream(AppFile, in.version)))

(***************************************************************************)
(* Specification SpecApp: the server's CacheManager shared by the tool     *)
(* handlers and FigmaClient.getFile.  Up to NumReqs tool calls are in      *)
(* flight; each runs from one await to the next in one step, and the steps *)
(* of different calls interleave.                                          *)
(***************************************************************************)
\* CacheManager.delete / invalidate / clear hand over to the provider
mgrDelete(P, key) == providerDelete(P, key)
mgrInvalidate(P, pattern) == providerInvalidate(P, pattern)
mgrClear(P) == providerClear(P)

\* the patterns and keys the cache is invalidated with
AppPatterns == { <<AppFile, ":", "*">> }
AppKeys == { fileKey(AppFile, {}) }

\* the versions the tools are called with
Versions == { in.version : in \in ToolInputs }

\* a get answered with a stored value (it is what counts a hit)
IsHit(r) == r.P.hits > hits

\* the one cache call of a step
CacheCall(op, key, r, touched) ==
    /\ Install(r.P)
    /\ UNCHANGED ret
    /\ lastAccess' = Accessed(lastAccess, touched, DOMAIN r.P.cache)

InputOf(r) == CHOOSE in \in reqs[r].input : TRUE
FileOf(r) == CHOOSE f \in reqs[r].file : TRUE

\* a handler is entered and looks its collection up; on a hit it answers
Start(r, in) ==
    /\ r = started + 1
    /\ started' = r
    /\ LET g == mgrGet(Provider, enabled, toolKey(in), now)
       IN  /\ CacheCall("mgrGet", toolKey(in), g, IF IsHit(g) THEN {toolKey(in)} ELSE {})
           /\ reqs' = [reqs EXCEPT ![r] =
                         IF IsHit(g)
                         THEN [pc |-> "done", input |-> {in}, file |-> {}, cached |-> FALSE,
                               response |-> {toolRespond(in, g.result)}]
                         ELSE [pc |-> "needFile", input |-> {in}, file |-> {}, cached |-> FALSE,
                               response |-> {}]]
    /\ UNCHANGED <<now, enabled, outsideApp>>

\* mutant: getFile never looks in the cache
getFileCheck_Skip(P, on, key, t) == [P |-> P, result |-> Null]

\* FigmaClient.getFile, up to the upstream request: the cache check
getFileCheck(P, on, key, t) == mgrGet(P, on, key, t)

\* FigmaClient.getFile is entered: a hit returns the cached file, a miss
\* sends the upstream request
CheckFile(r) ==
    /\ reqs[r].pc = "needFile"
    /\ LET key == fileKey(AppFile, InputOf(r).version)
           g == getFileCheck(Provider, enabled, key, now)
       IN  /\ CacheCall("mgrGet", key, g, IF IsHit(g) THEN {key} ELSE {})
           /\ reqs' = [reqs EXCEPT ![r] =
                         IF IsHit(g)
                         THEN [@ EXCEPT !.pc = "process", !.file = {g.result}, !.cached = TRUE]
                         ELSE [@ EXCEPT !.pc = "fetching"]]
    /\ UNCHANGED <<now, enabled, started, outsideApp>>

\* the upstream request succeeds: getFile caches the response and returns it
FetchDone(r) ==
    /\ reqs[r].pc = "fetching"
    /\ LET key == fileKey(AppFile, InputOf(r).version)
           response == Upstream(AppFile, InputOf(r).version)
           s == mgrSet(Provider, enabled, key, response, {"file"}, now, MaxSize)
       IN  /\ CacheCall("mgrSet", key, s, IF enabled THEN {key} ELSE {})
           /\ reqs' = [reqs EXCEPT ![r] = [@ EXCEPT !.pc = "process", !.file = {response}]]
    /\ UNCHANGED <<now, enabled, started, outsideApp>>

\* the upstream request fails: getFile throws and the tool call ends in an error
FetchFail(r) ==
    /\ reqs[r].pc = "fetching"
    /\ reqs' = [reqs EXCEPT ![r] = [@ EXCEPT !.pc = "done", !.response = {[ok |-> FALSE]}]]
    /\ UNCHANGED <<storeVars, started, outsideApp>>

\* the handler builds its collection from the file, caches it and answers
Process(r) ==
    /\ reqs[r].pc = "process"
    /\ LET in == InputOf(r)
           list == toolCompute(in, FileOf(r))
           s == mgrSet(Provider, enabled, toolKey(in), list, {in.tool}, now, MaxSize)
       IN  /\ CacheCall("mgrSet", toolKey(in), s, IF enabled THEN {toolKey(in)} ELSE {})
           /\ reqs' = [reqs EXCEPT ![r] =
                         [@ EXCEPT !.pc = "done", !.file = {}, !.cached = FALSE,
                                     !.response = {toolRespond(in, list)}]]
    /\ UNCHANGED <<now, enabled, started, outsideApp>>

AppInvalidate(pattern) ==
    /\ LET r == mgrInvalidate(Provider, pattern)
       IN  CacheCall("invalidate", pattern, r, {})
    /\ UNCHANGED <<now, enabled, outsideStore>>

AppDelete(key) ==
    /\ LET r == mgrDelete(Provider, key)
       IN  CacheCall("delete", key, r, {})
    /\ UNCHANGED <<now, enabled, outsideStore>>

AppClear ==
    /\ LET r == mgrClear(Provider)
       IN  CacheCall("clear", <<>>, r, {})
    /\ UNCHANGED <<now, enabled, outsideStore>>

InitApp == InitMgr

NextApp ==
    \/ \E r \in 1..NumReqs, in \in ToolInputs : Start(r, in)
    \/ \E r \in 1..NumReqs : CheckFile(r)
    \/ \E r \in 1..NumReqs : FetchDone(r)
    \/ \E r \in 1..NumReqs : FetchFail(r)
    \/ \E r \in 1..NumReqs : Process(r)
    \/ \E p \in AppPatterns : AppInvalidate(p)
    \/ \E k \in AppKeys : AppDelete(k)
    \/ AppClear
    \/ MgrTick

SpecApp == InitApp /\ [][NextApp]_vars

(***************************************************************************)
(* Node normalization: the semantic role of a node.  A node is its type,   *)
(* its name, the types of its children (children is {} when the node has   *)
(* no children property) and whether it has fills, a backgroundColor,      *)
(* strokes and an absoluteBoundingBox.  A result is {} for null;           *)
(* confidences are in hundredths.                                          *)
(***************************************************************************)
RoleResult(r, confidence, method) ==
    [role |-> r, confidence |-> confidence, detectionMethod |-> method]

hasBackground(n) == n.fills \/ n.backgroundColor
\* mutant: no node has a stroke
hasStroke_Never(n) == FALSE

hasStroke(n) == n.strokes
hasFrame(n) == n.absoluteBoundingBox

detectFromComponentType(n) ==
    IF n.type \in {"COMPONENT", "COMPONENT_SET", "INSTANCE"}
    THEN {RoleResult("container", 60, "component-type")}
    ELSE {}

detectFromStructure(n) ==
    IF n.children = {}
    THEN CASE n.type = "TEXT" -> {RoleResult("text", 90, "structural")}
           [] n.type \in {"RECTANGLE", "ELLIPSE"} -> {RoleResult("container", 50, "structural")}
           [] OTHER -> {}
    ELSE LET childTypes == CHOOSE c \in n.children : TRUE
             hasText == "TEXT" \in Range(childTypes)
             hasIcon == \E t \in Range(childTypes) : t \in {"VECTOR", "ELLIPSE"}
             allSameType == \A i \in 1..Len(childTypes) : childTypes[i] = childTypes[1]
             hasVisuals == \E t \in Range(childTypes) : t \in {"RECTANGLE", "ELLIPSE", "VECTOR"}
         IN  IF hasBackground(n) /\ hasText /\ Len(childTypes) <= 3
             THEN {RoleResult("button", IF hasIcon THEN 85 ELSE 75, "structural")}
             ELSE IF n.type = "FRAME" /\ hasFrame(n) /\ hasText /\ hasStroke(n)
                     /\ Len(childTypes) <= 2
             THEN {RoleResult("input", 80, "structural")}
             ELSE IF Len(childTypes) >= 3 /\ allSameType /\ n.type \in {"FRAME", "GROUP"}
             THEN {RoleResult("list", 70, "structural")}
             ELSE IF Len(childTypes) >= 2 /\ hasBackground(n) /\ hasText /\ hasVisuals
             THEN {RoleResult("card", 65, "structural")}
             ELSE {}

\* the keyword table of detectFromNaming, in its order
NamingPatterns ==
    << [keywords |-> {<<"b", "t", "n">>, <<"b", "u", "t", "t", "o", "n">>}, role |-> "button"],
       [keywords |-> {<<"i", "n", "p", "u", "t">>, <<"f", "i", "e", "l", "d">>,
                      <<"t", "e", "x", "t", "b", "o", "x">>}, role |-> "input"],
       [keywords |-> {<<"c", "a", "r", "d">>}, role |-> "card"],
       [keywords |-> {<<"l", "i", "s", "t">>}, role |-> "list"],
       [keywords |-> {<<"n", "a", "v">>, <<"n", "a", "v", "i", "g", "a", "t", "i", "o", "n">>},
        role |-> "navigation"],
       [keywords |-> {<<"h", "e", "a", "d", "e", "r">>}, role |-> "header"],
       [keywords |-> {<<"f", "o", "o", "t", "e", "r">>}, role |-> "footer"],
       [keywords |-> {<<"m", "o", "d", "a", "l">>, <<"d", "i", "a", "l", "o", "g">>},
        role |-> "modal"],
       [keywords |-> {<<"i", "c", "o", "n">>}, role |-> "icon"],
       [keywords |-> {<<"a", "v", "a", "t", "a", "r">>}, role |-> "avatar"],
       [keywords |-> {<<"b", "a", "d", "g", "e">>}, role |-> "badge"] >>

detectFromNaming(n) ==
    LET matching == { i \in 1..Len(NamingPatterns) :
                        \E name \in {toLowerCase(n.name)} :
                            \E kw \in NamingPatterns[i].keywords : includes(name, kw) }
    IN  IF matching = {} THEN {}
        ELSE LET first == CHOOSE i \in matching : \A j \in matching : i <= j
             IN  {RoleResult(NamingPatterns[first].role, 40, "naming")}

The(result) == CHOOSE x \in result : TRUE

\* mutant: agreement of the two tiers adds nothing
identifySemanticRole_NoBoost(n) ==
    LET componentTypeRole == detectFromComponentType(n)
        structuralRole == detectFromStructure(n)
        namingRole == detectFromNaming(n)
    IN  IF componentTypeRole # {} /\ The(componentTypeRole).confidence > 70
        THEN The(componentTypeRole)
        ELSE IF structuralRole # {} THEN The(structuralRole)
        ELSE IF componentTypeRole # {} THEN The(componentTypeRole)
        ELSE IF namingRole # {} THEN The(namingRole)
        ELSE RoleResult("unknown", 0, "hybrid")

\* mutant: on a conflict the naming hint is returned
identifySemanticRole_NamingWins(n) ==
    LET componentTypeRole == detectFromComponentType(n)
        structuralRole == detectFromStructure(n)
        namingRole == detectFromNaming(n)
    IN  IF componentTypeRole # {} /\ The(componentTypeRole).confidence > 70
        THEN The(componentTypeRole)
        ELSE IF structuralRole # {} /\ The(structuralRole).confidence > 70
        THEN The(structuralRole)
        ELSE IF structuralRole # {} /\ namingRole # {}
        THEN The(namingRole)
        ELSE IF structuralRole # {} THEN The(structuralRole)
        ELSE IF componentTypeRole # {} THEN The(componentTypeRole)
        ELSE IF namingRole # {} THEN The(namingRole)
        ELSE RoleResult("unknown", 0, "hybrid")

\* mutant: the naming hint is preferred to the component type
identifySemanticRole_NamingBeforeType(n) ==
    LET componentTypeRole == detectFromComponentType(n)
        structuralRole == detectFromStructure(n)
        namingRole == detectFromNaming(n)
    IN  IF componentTypeRole # {} /\ The(componentTypeRole).confidence > 70
        THEN The(componentTypeRole)
        ELSE IF structuralRole # {} /\ The(structuralRole).confidence > 70
        THEN The(structuralRole)
        ELSE IF structuralRole # {} /\ namingRole # {}
                /\ The(structuralRole).role = The(namingRole).role
        THEN LET boosted == The(structuralRole).confidence + 20
             IN  RoleResult(The(structuralRole).role,
                            IF boosted < 100 THEN boosted ELSE 100, "hybrid")
        ELSE IF structuralRole # {} /\ namingRole # {}
                /\ The(structuralRole).role # The(namingRole).role
        THEN [The(structuralRole) EXCEPT !.detectionMethod = "structural"]
        ELSE IF structuralRole # {} THEN The(structuralRole)
        ELSE IF namingRole # {} THEN The(namingRole)
        ELSE IF componentTypeRole # {} THEN The(componentTypeRole)
        ELSE RoleResult("unknown", 0, "hybrid")

identifySemanticRole(n) ==
    LET componentTypeRole == detectFromComponentType(n)
        structuralRole == detectFromStructure(n)
        namingRole == detectFromNaming(n)
    IN  IF componentTypeRole # {} /\ The(componentTypeRole).confidence > 70
        THEN The(componentTypeRole)
        ELSE IF structuralRole # {} /\ The(structuralRole).confidence > 70
        THEN The(structuralRole)
        ELSE IF structuralRole # {} /\ namingRole # {}
                /\ The(structuralRole).role = The(namingRole).role
        THEN LET boosted == The(structuralRole).confidence + 20
             IN  RoleResult(The(structuralRole).role,
                            IF boosted < 100 THEN boosted ELSE 100, "hybrid")
        ELSE IF structuralRole # {} /\ namingRole # {}
                /\ The(structuralRole).role # The(namingRole).role
        THEN [The(structuralRole) EXCEPT !.detectionMethod = "structural"]
        ELSE IF structuralRole # {} THEN The(structuralRole)
        ELSE IF componentTypeRole # {} THEN The(componentTypeRole)
        ELSE IF namingRole # {} THEN The(namingRole)
        ELSE RoleResult("unknown", 0, "hybrid")

(***************************************************************************)
(* Specification SpecRole: normalizeNode classifies a node.                 *)
(***************************************************************************)
NodeTypes == { "FRAME", "GROUP", "TEXT", "RECTANGLE", "INSTANCE" }
ChildTypes == { "TEXT", "VECTOR", "RECTANGLE" }
NodeNames == { <<"O", "K">>, <<"I", "n", "p", "u", "t">>, <<"b", "t", "n">>,
               <<"C", "a", "r", "d", " ", "l", "i", "s", "t">>, <<"L", "i", "s", "t">> }

ChildLists == UNION { [1..k -> ChildTypes] : k \in 0..MaxChildren }

Nodes ==
    [type : NodeTypes, name : NodeNames, children : {{}} \cup { {c} : c \in ChildLists },
     fills : BOOLEAN, backgroundColor : BOOLEAN, strokes : BOOLEAN,
     absoluteBoundingBox : BOOLEAN]

InitRole == InitMgr /\ enabled

\* normalizeNode is called on node n and stores the role it detects (one call
\* is followed: the result depends on nothing but n)
NormalizeNode(n) ==
    /\ node = {}
    /\ node' = {n}
    /\ role' = {identifySemanticRole(n)}
    /\ UNCHANGED outsideRole

\* the nodes a call can still be made on
Unvisited == IF node = {} THEN Nodes ELSE {}

NextRole == \E n \in Unvisited : NormalizeNode(n)

SpecRole == InitRole /\ [][NextRole]_vars

(***************************************************************************)
(* Style mapper: colour conversion.  A colour channel c on the 0..1 scale  *)
(* is the numerator of c over a denominator (ColorSteps on the way in, 255 *)
(* on the way out); a hex string is its sequence of characters; NaN is {}. *)
(***************************************************************************)
\* Math.round(p / q) for p >= 0, q > 0
RoundDiv(p, q) == (2 * p + q) \div (2 * q)

HexDigits == <<"0", "1", "2", "3", "4", "5", "6", "7", "8", "9", "a", "b", "c", "d", "e", "f">>

\* Number.prototype.toString(16) of an integer n >= 0
RECURSIVE toString16(_)
toString16(n) ==
    IF n < 16 THEN <<HexDigits[n + 1]>>
    ELSE Append(toString16(n \div 16), HexDigits[(n % 16) + 1])

\* mutant: no zero is put in front of a single digit
padStart2_None(str) == str

\* String.prototype.padStart(2, '0')
padStart2(str) == IF Len(str) < 2 THEN <<"0">> \o str ELSE str

\* String.prototype.toUpperCase
toUpperCase(str) ==
    [i \in 1..Len(str) |->
        IF str[i] \in Range(LowerCase) THEN UpperCase[indexOf(LowerCase, str[i])] ELSE str[i]]

\* String.prototype.substring(start, end) for 0 <= start <= end
substring(str, start, end) == slice(str, start, end)

\* the value of one hex digit, upper or lower case; {} when it is none
HexValue(ch) ==
    IF ch \in Range(HexDigits) THEN {indexOf(HexDigits, ch) - 1}
    ELSE IF ch \in Range(toUpperCase(HexDigits)) THEN {indexOf(toUpperCase(HexDigits), ch) - 1}
    ELSE {}

\* parseInt(str, 16): the longest prefix of hex digits, NaN ({}) when it is empty
RECURSIVE parseHexPrefix(_, _, _)
parseHexPrefix(str, i, acc) ==
    IF i > Len(str) \/ HexValue(str[i]) = {} THEN acc
    ELSE parseHexPrefix(str, i + 1,
                        {16 * (IF acc = {} THEN 0 ELSE CHOOSE v \in acc : TRUE)
                         + (CHOOSE d \in HexValue(str[i]) : TRUE)})

parseInt16(str) == parseHexPrefix(str, 1, {})

\* Math.round(c * 255).toString(16).padStart(2, '0')
channelHex(c) == padStart2(toString16(RoundDiv(c * 255, ColorSteps)))

rgbaToHex(rgba) ==
    IF rgba.a < ColorSteps
    THEN toUpperCase(<<"#">> \o channelHex(rgba.r) \o channelHex(rgba.g) \o channelHex(rgba.b)
                     \o channelHex(rgba.a))
    ELSE toUpperCase(<<"#">> \o channelHex(rgba.r) \o channelHex(rgba.g) \o channelHex(rgba.b))

\* the channels returned are numerators over 255
hexToRgba(hex) ==
    LET cleanHex == IF Len(hex) > 0 /\ hex[1] = "#" THEN Tail(hex) ELSE hex
    IN  [r |-> parseInt16(substring(cleanHex, 0, 2)),
         g |-> parseInt16(substring(cleanHex, 2, 4)),
         b |-> parseInt16(substring(cleanHex, 4, 6)),
         a |-> IF Len(cleanHex) = 8 THEN parseInt16(substring(cleanHex, 6, 8)) ELSE {255}]

(***************************************************************************)
(* Specification SpecColor: a colour is converted to hex and back.         *)
(***************************************************************************)
Channel == 0..ColorSteps

Colors ==
    [r : Channel, g : {0, ColorSteps}, b : {ColorSteps \div 3}, a : {0, ColorSteps - 1, ColorSteps}]
    \cup [r : {0, ColorSteps}, g : {ColorSteps \div 2}, b : {1}, a : Channel]

InitColor ==
    /\ NothingRunning
    /\ input \in { {c} : c \in Colors }
    /\ output = {}

RoundTrip ==
    /\ output = {}
    /\ output' = {hexToRgba(rgbaToHex(The(input)))}
    /\ UNCHANGED <<input, outsidePure>>

NextColor == RoundTrip

SpecColor == InitColor /\ [][NextColor]_vars

(***************************************************************************)
(* Token mapper: the spacing scale.  A spacing value is a number of half    *)
(* pixels (3 is 1.5px), so that Math.round has something to round.         *)
(***************************************************************************)
\* Math.round of a number of half pixels, as a number of half pixels
RoundPx(h) == 2 * ((h + 1) \div 2)

\* const gcd = (a, b) => b === 0 ? a : gcd(b, a % b)
RECURSIVE gcd(_, _)
gcd(a, b) == IF b = 0 THEN a ELSE gcd(b, a % b)

\* numbers.reduce((acc, num) => gcd(acc, Math.round(num))) on a non-empty array
RECURSIVE gcdReduce(_, _, _)
gcdReduce(numbers, i, acc) ==
    IF i > Len(numbers) THEN acc
    ELSE gcdReduce(numbers, i + 1, gcd(acc, RoundPx(numbers[i])))

\* mutant: the first value is taken as the base unit
findGCD_First(numbers) == numbers[1]

findGCD(numbers) == gcdReduce(numbers, 2, numbers[1])

\* [...set].sort((a, b) => a - b)
RECURSIVE sortAscending(_)
sortAscending(set) ==
    IF set = {} THEN <<>>
    ELSE LET least == CHOOSE x \in set : \A y \in set : x <= y
         IN  <<least>> \o sortAscending(set \ {least})

Digits == <<"0", "1", "2", "3", "4", "5", "6", "7", "8", "9">>

\* `${n}` of a whole number
RECURSIVE toString10(_)
toString10(n) ==
    IF n < 10 THEN <<Digits[n + 1]>>
    ELSE toString10(n \div 10) \o <<Digits[(n % 10) + 1]>>

\* `${x}` of a number x of half pixels
pxString(h) == toString10(h \div 2) \o (IF h % 2 = 1 THEN <<".", "5">> ELSE <<>>)

SpacingScale ==
    << <<"x", "s">>, <<"s", "m">>, <<"m", "d">>, <<"l", "g">>, <<"x", "l">>,
       <<"2", "x", "l">>, <<"3", "x", "l">>, <<"4", "x", "l">> >>

SpacingUsage ==
    <<"U", "s", "e", "d", " ", "f", "o", "r", " ", "m", "a", "r", "g", "i", "n", "s", ",", " ">>
    \o <<"p", "a", "d", "d", "i", "n", "g", ",", " ", "a", "n", "d", " ", "g", "a", "p", "s">>

\* a token's description is `${multiplier}x base unit (${baseUnit}px)`
detectSpacingSystem(spacings) ==
    LET uniqueSpacings == sortAscending({ x \in Range(spacings) : x > 0 })
    IN  IF uniqueSpacings = <<>> THEN <<>>
        ELSE LET baseUnit == findGCD(uniqueSpacings)
             IN  [index \in 1..Len(uniqueSpacings) |->
                    [name |-> <<"s", "p", "a", "c", "i", "n", "g", "-">>
                              \o (IF index - 1 < Len(SpacingScale)
                                  THEN SpacingScale[index] ELSE toString10(index - 1)),
                     category |-> "spacing",
                     value |-> uniqueSpacings[index],
                     description |->
                         toString10(RoundDiv(uniqueSpacings[index], baseUnit))
                         \o <<"x", " ", "b", "a", "s", "e", " ", "u", "n", "i", "t", " ", "(">>
                         \o pxString(baseUnit) \o <<"p", "x", ")">>,
                     usage |-> SpacingUsage]]

(***************************************************************************)
(* Specification SpecSpacing: detectSpacingSystem is called on a list of   *)
(* spacing values.                                                         *)
(***************************************************************************)
\* 0, 0.5, 1, 1.5, 8, 12, 16 and 24 pixels
SpacingValues == { 0, 1, 2, 3, 16, 24, 32, 48 }

SpacingLists == UNION { [1..k -> SpacingValues] : k \in 0..MaxSpacings }

InitSpacing ==
    /\ NothingRunning
    /\ input \in { {l} : l \in SpacingLists }
    /\ output = {}

DetectSpacing ==
    /\ output = {}
    /\ output' = {detectSpacingSystem(The(input))}
    /\ UNCHANGED <<input, outsidePure>>

NextSpacing == DetectSpacing

SpecSpacing == InitSpacing /\ [][NextSpacing]_vars

(***************************************************************************)
(* The normalizer.  A raw document is a map from node id to raw node; a    *)
(* node names its children by id.  A property a node does not have is the  *)
(* empty set (0 for a number read with `|| 0`).  Lengths are numbers of    *)
(* half pixels.  The nodes of the model carry no paints and no effects.    *)
(***************************************************************************)
MAX_REUSE_DEPTH == 4
PRIMITIVE_THRESHOLD == 5

RawNode(id, name, type) ==
    [id |-> id, name |-> name, type |-> type, visible |-> {}, children |-> {},
     layoutMode |-> {}, itemSpacing |-> 0, paddingTop |-> 0, paddingRight |-> 0,
     paddingBottom |-> 0, paddingLeft |-> 0, absoluteBoundingBox |-> {},
     characters |-> <<>>, style |-> {}, componentId |-> {},
     primaryAxisAlignItems |-> {}, counterAxisAlignItems |-> {}, fills |-> <<>>]

isLayoutNode(n) == n.type \in { "FRAME", "CANVAS" }
isComponentNode(n) == n.type \in { "COMPONENT", "COMPONENT_SET", "INSTANCE" }

isVisualNode(n) == n.type \in { "RECTANGLE", "ELLIPSE", "VECTOR", "STAR", "LINE" }

\* node.children?.map((c) => c.id) || []
childIds(n) == IF n.children = {} THEN <<>> ELSE The(n.children)

\* what identifySemanticRole reads of a node
roleNode(doc, n) ==
    [type |-> n.type, name |-> n.name,
     children |-> IF n.children = {} THEN {}
                  ELSE {[i \in 1..Len(The(n.children)) |-> doc[The(n.children)[i]].type]},
     fills |-> n.fills # <<>>, backgroundColor |-> FALSE, strokes |-> FALSE,
     absoluteBoundingBox |-> n.absoluteBoundingBox # {}]

\* boundingBox ? { width, height } : { width: 0, height: 0 }
dimensionsOf(n) ==
    IF n.absoluteBoundingBox = {} THEN [width |-> 0, height |-> 0]
    ELSE [width |-> The(n.absoluteBoundingBox).width, height |-> The(n.absoluteBoundingBox).height]

\* node.children.map((c) => c.absoluteBoundingBox).filter(Boolean)
RECURSIVE childBoxes(_, _)
childBoxes(doc, ids) ==
    IF ids = <<>> THEN <<>>
    ELSE (IF doc[Head(ids)].absoluteBoundingBox = {} THEN <<>>
          ELSE <<The(doc[Head(ids)].absoluteBoundingBox)>>) \o childBoxes(doc, Tail(ids))

MinGridChildren == 4

\* mutant: a grid needs several positions on one axis only
hasGridPattern_EitherAxis(doc, n) ==
    IF n.children = {} \/ Len(childIds(n)) < MinGridChildren THEN FALSE
    ELSE LET positions == childBoxes(doc, childIds(n))
         IN  IF Len(positions) < MinGridChildren THEN FALSE
             ELSE \/ Cardinality({ RoundPx(positions[i].x) : i \in 1..Len(positions) }) >= 2
                  \/ Cardinality({ RoundPx(positions[i].y) : i \in 1..Len(positions) }) >= 2

hasGridPattern(doc, n) ==
    IF n.children = {} \/ Len(childIds(n)) < MinGridChildren THEN FALSE
    ELSE LET positions == childBoxes(doc, childIds(n))
         IN  IF Len(positions) < MinGridChildren THEN FALSE
             ELSE /\ Cardinality({ RoundPx(positions[i].x) : i \in 1..Len(positions) }) >= 2
                  /\ Cardinality({ RoundPx(positions[i].y) : i \in 1..Len(positions) }) >= 2

determineLayoutStrategy(doc, n) ==
    IF n.layoutMode = {} THEN "none"
    ELSE IF The(n.layoutMode) \in { "HORIZONTAL", "VERTICAL" }
    THEN IF n.children # {} /\ hasGridPattern(doc, n) THEN "grid-candidate" ELSE "flexbox"
    ELSE "none"

detectGridPattern(doc, n) ==
    LET positions == childBoxes(doc, childIds(n))
        xPositions == sortAscending({ RoundPx(positions[i].x) : i \in 1..Len(positions) })
        yPositions == sortAscending({ RoundPx(positions[i].y) : i \in 1..Len(positions) })
    IN  [columns |-> Len(xPositions), rows |-> Len(yPositions),
         columnGap |-> IF Len(xPositions) > 1 THEN xPositions[2] - xPositions[1] ELSE 0,
         rowGap |-> IF Len(yPositions) > 1 THEN yPositions[2] - yPositions[1] ELSE 0,
         isUniform |-> TRUE]

extractPadding(n) ==
    IF n.paddingTop # 0 \/ n.paddingRight # 0 \/ n.paddingBottom # 0 \/ n.paddingLeft # 0
    THEN {[top |-> n.paddingTop, right |-> n.paddingRight,
           bottom |-> n.paddingBottom, left |-> n.paddingLeft]}
    ELSE {}

\* alignMap[align] || 'flex-start'
mapPrimaryAxisAlign(n) ==
    CASE n.primaryAxisAlignItems = {"MIN"} -> "flex-start"
      [] n.primaryAxisAlignItems = {"CENTER"} -> "center"
      [] n.primaryAxisAlignItems = {"MAX"} -> "flex-end"
      [] n.primaryAxisAlignItems = {"SPACE_BETWEEN"} -> "space-between"
      [] OTHER -> "flex-start"

\* alignMap[align] || 'stretch'
mapCounterAxisAlign(n) ==
    CASE n.counterAxisAlignItems = {"MIN"} -> "flex-start"
      [] n.counterAxisAlignItems = {"CENTER"} -> "center"
      [] n.counterAxisAlignItems = {"MAX"} -> "flex-end"
      [] OTHER -> "stretch"

extractFlexboxRules(n) ==
    [direction |-> IF n.layoutMode = {"HORIZONTAL"} THEN "row" ELSE "column",
     justifyContent |-> mapPrimaryAxisAlign(n), alignItems |-> mapCounterAxisAlign(n),
     gap |-> n.itemSpacing, padding |-> extractPadding(n)]

extractLayoutIntent(doc, n) ==
    LET strategy == determineLayoutStrategy(doc, n)
    IN  [strategy |-> strategy, children |-> childIds(n), clipsContent |-> FALSE,
         dimensions |-> dimensionsOf(n),
         flexbox |-> IF strategy = "flexbox" /\ n.layoutMode # {}
                     THEN {extractFlexboxRules(n)} ELSE {},
         grid |-> IF strategy = "grid-candidate" /\ n.children # {} /\ n.type = "FRAME"
                  THEN {detectGridPattern(doc, n)} ELSE {}]

(***************************************************************************)
(* Specification SpecLayout: extractLayoutIntent is called on a frame      *)
(* whose children are placed on a few positions.                           *)
(***************************************************************************)
MaxBoxes == 4    \* children of a frame, each with any box or none

\* children of the larger frames, each with a box
ExampleChildren == MaxBoxes + 2

FrameId == "1:2"
ChildIds == << "1:3", "1:4", "1:5", "1:6", "1:7", "1:8", "1:9", "1:10" >>

Box(x, y) == [x |-> x, y |-> y, width |-> 20, height |-> 20]

\* x is 0, 0.5, 1 or 2 pixels and y is 0 or 1.5 pixels
AnyBox == { {} } \cup { {Box(x, y)} : x \in { 0, 1, 2, 4 }, y \in { 0, 3 } }
GridBox == { {Box(x, y)} : x \in { 0, 2, 4 }, y \in { 0, 3 } }

BoxLists == UNION { [1..k -> AnyBox] : k \in 0..MaxBoxes }
ExampleLists == [1..ExampleChildren -> GridBox]

LayoutModes == { {}, {"NONE"}, {"HORIZONTAL"}, {"VERTICAL"} }

\* a document holding one frame and its children
FrameDoc(mode, boxes) ==
    [id \in {FrameId} \cup { ChildIds[i] : i \in 1..Len(boxes) } |->
        IF id = FrameId
        THEN [RawNode(FrameId, <<"G", "r", "i", "d">>, "FRAME") EXCEPT
                 !.layoutMode = mode,
                 !.children = {SubSeq(ChildIds, 1, Len(boxes))}]
        ELSE [RawNode(id, <<"c", "e", "l", "l">>, "RECTANGLE") EXCEPT
                 !.absoluteBoundingBox = boxes[CHOOSE i \in 1..Len(boxes) : ChildIds[i] = id]]]

\* the alignments a raw frame can carry: none, the values of the two tables
\* and one more
PrimaryAligns == { {}, {"MIN"}, {"CENTER"}, {"MAX"}, {"SPACE_BETWEEN"}, {"SPACE_AROUND"},
                   {"SPACE_EVENLY"}, {"STRETCH"} }
CounterAligns == { {}, {"MIN"}, {"CENTER"}, {"MAX"}, {"BASELINE"}, {"STRETCH"} }

\* an auto-layout frame with an empty list of children that sets its
\* alignments
AlignedDoc(mode, primary, counter) ==
    [id \in {FrameId} |->
        [RawNode(FrameId, <<"R", "o", "w">>, "FRAME") EXCEPT
            !.layoutMode = mode,
            !.children = {<<>>},
            !.primaryAxisAlignItems = primary,
            !.counterAxisAlignItems = counter]]

InitLayout ==
    /\ NothingRunning
    /\ \/ input \in { {FrameDoc(mode, boxes)} : mode \in LayoutModes, boxes \in BoxLists }
       \/ input \in { {FrameDoc({"HORIZONTAL"}, boxes)} : boxes \in ExampleLists }
       \/ input \in { {AlignedDoc(mode, primary, counter)} :
                          mode \in { {"HORIZONTAL"}, {"VERTICAL"} },
                          primary \in PrimaryAligns, counter \in CounterAligns }
    /\ output = {}

ExtractLayout ==
    /\ output = {}
    /\ output' = {extractLayoutIntent(The(input), The(input)[FrameId])}
    /\ UNCHANGED <<input, outsidePure>>

NextLayout == ExtractLayout

SpecLayout == InitLayout /\ [][NextLayout]_vars

(***************************************************************************)
(* trackComponentReuse                                                     *)
(***************************************************************************)
\* mutant: the depth of a node is not looked at
tooDeep_Never(depth, maxDepth) == FALSE

\* depth > maxDepth
tooDeep(depth, maxDepth) == depth > maxDepth

\* the calls traverse(node, depth) still to be made, in order, with the map
\* and the visited set they share
RECURSIVE reuseTraverse(_, _, _, _, _)
reuseTraverse(doc, pending, maxDepth, reuseMap, visited) ==
    IF pending = <<>> THEN reuseMap
    ELSE LET id == Head(pending)[1]
             depth == Head(pending)[2]
             n == doc[id]
             calls == [i \in 1..Len(childIds(n)) |-> <<childIds(n)[i], depth + 1>>]
         IN  IF tooDeep(depth, maxDepth) \/ id \in visited
             THEN reuseTraverse(doc, Tail(pending), maxDepth, reuseMap, visited)
             ELSE reuseTraverse(doc, calls \o Tail(pending), maxDepth,
                     IF n.type = "INSTANCE" /\ n.componentId # {}
                     THEN MapSet(reuseMap, The(n.componentId),
                                 Append(IF The(n.componentId) \in DOMAIN reuseMap
                                        THEN reuseMap[The(n.componentId)] ELSE <<>>, id))
                     ELSE reuseMap,
                     visited \cup {id})

\* maxDepth is {} when the argument is omitted
trackComponentReuse(doc, nodes, maxDepth) ==
    reuseTraverse(doc, [i \in 1..Len(nodes) |-> <<nodes[i], 0>>],
                  IF maxDepth = {} THEN MAX_REUSE_DEPTH ELSE The(maxDepth), EmptyMap, {})

(***************************************************************************)
(* Specification SpecReuse: trackComponentReuse is called on a list of     *)
(* nodes of one page.                                                      *)
(***************************************************************************)
MaxRoots == 2       \* nodes in the list handed to trackComponentReuse
MaxDepthArg == 2    \* largest maxDepth argument

\* what the nodes below the page can be: a frame, or an instance of a
\* component (or of none)
ReuseKinds == { <<"FRAME", {}>>, <<"INSTANCE", {"C"}>>, <<"INSTANCE", {"D"}>>,
                <<"INSTANCE", {}>> }

\* a page holding a chain 1:2 > 1:3 > 1:4 and a single node 1:5
ReuseShape ==
    ("1:1" :> <<"1:2", "1:5">>) @@ ("1:2" :> <<"1:3">>) @@ ("1:3" :> <<"1:4">>) @@
    ("1:4" :> <<>>) @@ ("1:5" :> <<>>)

ReuseIds == { "1:2", "1:3", "1:4", "1:5" }

ReuseDoc(kinds) ==
    [id \in DOMAIN ReuseShape |->
        IF id = "1:1"
        THEN [RawNode(id, <<"P", "1">>, "CANVAS") EXCEPT !.children = {ReuseShape[id]}]
        ELSE [RawNode(id, <<"C", "a", "r", "d">>, kinds[id][1]) EXCEPT
                 !.children = {ReuseShape[id]}, !.componentId = kinds[id][2]]]

RootLists == UNION { [1..k -> DOMAIN ReuseShape] : k \in 0..MaxRoots }

InitReuse ==
    /\ NothingRunning
    /\ input \in { {[doc |-> ReuseDoc(kinds), nodes |-> nodes, maxDepth |-> maxDepth]} :
                      kinds \in [ReuseIds -> ReuseKinds], nodes \in RootLists,
                      maxDepth \in { {} } \cup { {d} : d \in 0..MaxDepthArg } }
    /\ output = {}

TrackReuse ==
    /\ output = {}
    /\ output' = {trackComponentReuse(The(input).doc, The(input).nodes, The(input).maxDepth)}
    /\ UNCHANGED <<input, outsidePure>>

NextReuse == TrackReuse

SpecReuse == InitReuse /\ [][NextReuse]_vars

(***************************************************************************)
(* normalizeNode and the traversal of handleGetDesignTokens                *)
(***************************************************************************)
\* the typography of a text node without style
DefaultTypography ==
    [fontFamily |-> "sans-serif", fontSize |-> 28, fontWeight |-> 400, lineHeight |-> 40,
     letterSpacing |-> 0, textAlign |-> "LEFT"]

extractTypographyFromNode(n) ==
    IF n.style = {} THEN DefaultTypography
    ELSE [fontFamily |-> The(n.style).fontFamily, fontSize |-> The(n.style).fontSize,
          fontWeight |-> The(n.style).fontWeight, lineHeight |-> The(n.style).lineHeightPx,
          letterSpacing |-> The(n.style).letterSpacing,
          textAlign |-> The(n.style).textAlignHorizontal]

\* the colour of the first fill when that is a solid paint, else undefined
extractTextColor(n) ==
    IF n.fills = <<>> THEN {}
    ELSE IF n.fills[1].type = "SOLID" THEN n.fills[1].color ELSE {}

extractTextElement(n) ==
    [content |-> n.characters, typography |-> extractTypographyFromNode(n),
     color |-> extractTextColor(n), isTruncated |-> FALSE]

\* componentContext is {} when the argument is omitted
extractComponentInstance(n, componentContext) ==
    [componentType |-> IF n.type = "COMPONENT" THEN "component"
                       ELSE IF n.type = "COMPONENT_SET" THEN "component-set" ELSE "instance",
     description |-> {},
     reuse |-> IF componentContext # {} THEN The(componentContext)
               ELSE [rootComponentId |-> n.id, rootComponentName |-> n.name,
                     nestingPath |-> <<n.id>>, nestingDepth |-> 0, instanceCount |-> 1,
                     isPrimitive |-> FALSE],
     children |-> childIds(n),
     dimensions |-> dimensionsOf(n)]

mapNodeTypeToVisualType(type) ==
    CASE type = "RECTANGLE" -> "rectangle"
      [] type = "ELLIPSE" -> "ellipse"
      [] type = "VECTOR" -> "vector"
      [] type = "STAR" -> "icon"
      [] type = "LINE" -> "vector"
      [] OTHER -> "rectangle"

\* a node without paints and effects has no background, border or shadow
extractVisualElement(n) ==
    [type |-> mapNodeTypeToVisualType(n.type),
     visual |-> [backgroundColor |-> {}, border |-> {}, shadow |-> {}, opacity |-> 1],
     dimensions |-> dimensionsOf(n)]

\* the normalized node, or {} for null; parentId and componentContext are {}
\* when omitted
normalizeNode(doc, n, parentId, componentContext) ==
    LET Normalized(nodeType, data) ==
            {[id |-> n.id, name |-> n.name, originalType |-> n.type,
              semanticRole |-> identifySemanticRole(roleNode(doc, n)),
              parentId |-> parentId,
              visible |-> IF n.visible = {} THEN TRUE ELSE The(n.visible),
              nodeType |-> nodeType, data |-> data]}
    IN  IF n.visible = {FALSE} THEN {}
        ELSE IF isLayoutNode(n) THEN Normalized("layout", extractLayoutIntent(doc, n))
        ELSE IF n.type = "TEXT" THEN Normalized("text", extractTextElement(n))
        ELSE IF isComponentNode(n)
        THEN Normalized("component", extractComponentInstance(n, componentContext))
        ELSE IF isVisualNode(n) THEN Normalized("visual", extractVisualElement(n))
        ELSE IF n.children # {}
        THEN Normalized("layout", [strategy |-> "none", children |-> childIds(n),
                                   clipsContent |-> FALSE,
                                   dimensions |-> [width |-> 0, height |-> 0],
                                   flexbox |-> {}, grid |-> {}])
        ELSE {}

MAX_TRAVERSAL_DEPTH == 12

\* mutant: the children of an invisible node are not enqueued
childEntries_SkipHidden(n, depth) ==
    IF n.visible = {FALSE} THEN <<>>
    ELSE [i \in 1..Len(childIds(n)) |->
            [id |-> childIds(n)[i], depth |-> depth + 1, parentId |-> {n.id}]]

\* mutant: nothing is enqueued below the depth of the warning
childEntries_UpToLimit(n, depth) ==
    IF depth >= MAX_TRAVERSAL_DEPTH THEN <<>>
    ELSE [i \in 1..Len(childIds(n)) |->
            [id |-> childIds(n)[i], depth |-> depth + 1, parentId |-> {n.id}]]

\* the queue entries of the children of a node
childEntries(n, depth) ==
    [i \in 1..Len(childIds(n)) |->
        [id |-> childIds(n)[i], depth |-> depth + 1, parentId |-> {n.id}]]

\* the while loop of traverseAndNormalize
RECURSIVE traverseQueue(_, _, _)
traverseQueue(doc, queue, normalizedNodes) ==
    IF queue = <<>> THEN normalizedNodes
    ELSE LET n == doc[Head(queue).id]
             normalized == normalizeNode(doc, n, Head(queue).parentId, {})
         IN  traverseQueue(doc, Tail(queue) \o childEntries(n, Head(queue).depth),
                           IF normalized # {} THEN Append(normalizedNodes, The(normalized))
                           ELSE normalizedNodes)

traverseAndNormalize(doc, root) ==
    traverseQueue(doc, <<[id |-> root, depth |-> 0, parentId |-> {}]>>, <<>>)

(***************************************************************************)
(* Token mapper: inferDesignTokens                                         *)
(***************************************************************************)
\* Colours: a channel is a whole number of thousandths (0..1000)
RECURSIVE extractColorsFromNodes(_)
extractColorsFromNodes(nodes) ==
    IF nodes = <<>> THEN <<>>
    ELSE LET n == Head(nodes)
         IN  (IF n.nodeType = "text" /\ n.data.color # {} THEN <<The(n.data.color)>> ELSE <<>>)
             \o (IF n.nodeType = "visual" /\ n.data.visual.backgroundColor # {}
                 THEN <<The(n.data.visual.backgroundColor)>> ELSE <<>>)
             \o (IF n.nodeType = "visual" /\ n.data.visual.border # {}
                 THEN <<The(n.data.visual.border).color>> ELSE <<>>)
             \o extractColorsFromNodes(Tail(nodes))

Abs(x) == IF x < 0 THEN 0 - x ELSE x

colorsEqual(color1, color2, threshold) ==
    /\ Abs(color1.r - color2.r) < threshold
    /\ Abs(color1.g - color2.g) < threshold
    /\ Abs(color1.b - color2.b) < threshold
    /\ Abs(color1.a - color2.a) < threshold

RECURSIVE sumOf(_, _)
sumOf(colors, channel) ==
    IF colors = <<>> THEN 0 ELSE Head(colors)[channel] + sumOf(Tail(colors), channel)

\* the mean of the colours, to the thousandth below
averageColors(colors) ==
    [channel \in { "r", "g", "b", "a" } |-> sumOf(colors, channel) \div Len(colors)]

\* the loop of clusterColors over the colours still to place; threshold 0.1
RECURSIVE clusterLoop(_, _)
clusterLoop(colors, clusters) ==
    IF colors = <<>> THEN clusters
    ELSE LET color == Head(colors)
             found == { i \in 1..Len(clusters) : colorsEqual(color, clusters[i].centroid, 100) }
         IN  IF found = {}
             THEN clusterLoop(Tail(colors),
                              Append(clusters, [centroid |-> color, colors |-> <<color>>]))
             ELSE LET i == CHOOSE j \in found : \A k \in found : j <= k
                      members == Append(clusters[i].colors, color)
                  IN  clusterLoop(Tail(colors),
                                  [clusters EXCEPT ![i] = [centroid |-> averageColors(members),
                                                           colors |-> members]])

clusterColors(colors) == clusterLoop(colors, <<>>)

\* c <= 0.03928 ? c / 12.92 : Math.pow((c + 0.055) / 1.055, 2.4), in
\* ten-thousandths, for the channel values the colours of the model take
linearize(c) ==
    CASE c = 0 -> 0
      [] c = 200 -> 331
      [] c = 500 -> 2140
      [] c = 800 -> 6038
      [] c = 1000 -> 10000

\* the relative luminance, in units of 10^-8
calculateBrightness(color) ==
    2126 * linearize(color.r) + 7152 * linearize(color.g) + 722 * linearize(color.b)

Max3(a, b, c) == IF a >= b /\ a >= c THEN a ELSE IF b >= c THEN b ELSE c

isNeutralColor(color) ==
    Max3(Abs(color.r - color.g), Abs(color.g - color.b), Abs(color.b - color.r)) < 50

\* `-${index}` when index > 0, else nothing
indexSuffix(index) == IF index > 0 THEN <<"-">> \o toString10(index) ELSE <<>>

generateNeutralColorName(brightness, index) ==
    IF brightness > 95000000 THEN <<"w", "h", "i", "t", "e">> \o indexSuffix(index)
    ELSE IF brightness < 5000000 THEN <<"b", "l", "a", "c", "k">> \o indexSuffix(index)
    ELSE <<"g", "r", "a", "y", "-">> \o toString10(900 - RoundDiv(brightness * 8, 1000000))

\* the type of a semantic colour, <<>> when the colour is not semantic
detectSemanticColorType(color) ==
    IF color.r > 700 /\ color.g < 400 /\ color.b < 400 THEN <<"e", "r", "r", "o", "r">>
    ELSE IF color.g > 600 /\ color.r < 400 /\ color.b < 400 THEN <<"s", "u", "c", "c", "e", "s", "s">>
    ELSE IF color.r > 700 /\ color.g > 500 /\ color.b < 300 THEN <<"w", "a", "r", "n", "i", "n", "g">>
    ELSE IF color.b > 600 /\ color.r < 400 /\ color.g < 600 THEN <<"i", "n", "f", "o">>
    ELSE <<>>

isSemanticColor(color) == detectSemanticColorType(color) # <<>>

\* clusters.sort((a, b) => b.colors.length - a.colors.length), a stable sort
RECURSIVE sortByFrequency(_)
sortByFrequency(clusters) ==
    IF clusters = <<>> THEN <<>>
    ELSE LET first == CHOOSE i \in 1..Len(clusters) :
                        /\ \A j \in 1..Len(clusters) :
                              Len(clusters[j].colors) <= Len(clusters[i].colors)
                        /\ \A j \in 1..(i - 1) :
                              Len(clusters[j].colors) < Len(clusters[i].colors)
         IN  <<clusters[first]>> \o sortByFrequency(splice1(clusters, first))

\* `Used ${n} times in design`
colorUsage(n) == <<"U", "s", "e", "d", " ">> \o toString10(n) \o <<" ", "t", "i", "m", "e", "s", " ", "i", "n", " ", "d", "e", "s", "i", "g", "n">>

\* the loop of detectColorPalette over the clusters still to name
RECURSIVE paletteLoop(_, _, _, _)
paletteLoop(clusters, primaryIndex, neutralIndex, semanticIndex) ==
    IF clusters = <<>> THEN <<>>
    ELSE LET representative == Head(clusters).centroid
             brightness == calculateBrightness(representative)
             Token(name, description) ==
                 [name |-> name, category |-> "color", value |-> representative,
                  description |-> description,
                  usage |-> colorUsage(Len(Head(clusters).colors))]
         IN  IF isNeutralColor(representative)
             THEN <<Token(generateNeutralColorName(brightness, neutralIndex),
                          <<"N", "e", "u", "t", "r", "a", "l", " ", "c", "o", "l", "o", "r", " ", "-", " ", "b", "r", "i", "g", "h", "t", "n", "e", "s", "s", ":", " ">> \o toString10(RoundDiv(brightness, 1000000)) \o <<"%">>)>>
                  \o paletteLoop(Tail(clusters), primaryIndex, neutralIndex + 1, semanticIndex)
             ELSE IF isSemanticColor(representative)
             THEN <<Token(detectSemanticColorType(representative) \o <<"-">>
                              \o toString10(semanticIndex),
                          <<"S", "e", "m", "a", "n", "t", "i", "c", " ">> \o detectSemanticColorType(representative) \o <<" ", "c", "o", "l", "o", "r">>)>>
                  \o paletteLoop(Tail(clusters), primaryIndex, neutralIndex, semanticIndex + 1)
             ELSE <<Token(IF primaryIndex = 0 THEN <<"p", "r", "i", "m", "a", "r", "y">>
                          ELSE <<"p", "r", "i", "m", "a", "r", "y">> \o <<"-">> \o toString10(primaryIndex),
                          <<"P", "r", "i", "m", "a", "r", "y", " ", "b", "r", "a", "n", "d", " ", "c", "o", "l", "o", "r">>)>>
                  \o paletteLoop(Tail(clusters), primaryIndex + 1, neutralIndex, semanticIndex)

detectColorPalette(colors) ==
    IF colors = <<>> THEN <<>>
    ELSE paletteLoop(sortByFrequency(clusterColors(colors)), 0, 0, 0)

RECURSIVE extractTypographiesFromNodes(_)
extractTypographiesFromNodes(nodes) ==
    IF nodes = <<>> THEN <<>>
    ELSE (IF Head(nodes).nodeType = "text" THEN <<Head(nodes).data.typography>> ELSE <<>>)
         \o extractTypographiesFromNodes(Tail(nodes))

RECURSIVE extractSpacingsFromNodes(_)
extractSpacingsFromNodes(nodes) ==
    IF nodes = <<>> THEN <<>>
    ELSE (IF Head(nodes).nodeType = "layout" /\ Head(nodes).data.flexbox # {}
          THEN LET flexbox == The(Head(nodes).data.flexbox)
               IN  <<flexbox.gap>> \o
                   (IF flexbox.padding # {}
                    THEN <<The(flexbox.padding).top, The(flexbox.padding).right,
                           The(flexbox.padding).bottom, The(flexbox.padding).left>>
                    ELSE <<>>)
          ELSE <<>>)
         \o extractSpacingsFromNodes(Tail(nodes))

\* [...keys].sort((a, b) => b - a)
RECURSIVE sortDescending(_)
sortDescending(set) ==
    IF set = {} THEN <<>>
    ELSE LET most == CHOOSE x \in set : \A y \in set : x >= y
         IN  <<most>> \o sortDescending(set \ {most})

HeadingLevels == 6
BodySize == 28

\* the description of the token at place index (from 1) of the scale; no
\* typography of the pipeline has a semanticLevel
typographyDescription(index, size) ==
    IF index - 1 < HeadingLevels
    THEN <<"H", "e", "a", "d", "i", "n", "g", " ", "l", "e", "v", "e", "l", " ">>
         \o toString10(index)
    ELSE IF size >= BodySize
    THEN <<"B", "o", "d", "y", " ", "t", "e", "x", "t", " ", "s", "t", "y", "l", "e">>
    ELSE <<"C", "a", "p", "t", "i", "o", "n", "/", "s", "m", "a", "l", "l", " ", "t", "e", "x", "t", " ", "s", "t", "y", "l", "e">>

\* usage is `Font size: ${size}px, used ${group.length} times`
detectTypographyScale(typographies) ==
    LET SizeOf(i) == RoundPx(typographies[i].fontSize)
        sortedSizes == sortDescending({ SizeOf(i) : i \in 1..Len(typographies) })
        Group(size) == { i \in 1..Len(typographies) : SizeOf(i) = size }
        Representative(size) ==
            typographies[CHOOSE i \in Group(size) : \A j \in Group(size) : i <= j]
    IN  [index \in 1..Len(sortedSizes) |->
            LET size == sortedSizes[index]
            IN  [name |-> IF index - 1 < HeadingLevels THEN <<"h">> \o toString10(index)
                          ELSE IF size >= BodySize
                          THEN <<"b", "o", "d", "y", "-">> \o toString10(index - HeadingLevels)
                          ELSE <<"c", "a", "p", "t", "i", "o", "n", "-">>
                               \o toString10(index - HeadingLevels),
                 category |-> "typography",
                 value |-> Representative(size),
                 description |-> typographyDescription(index, size),
                 usage |-> <<"F", "o", "n", "t", " ", "s", "i", "z", "e", ":", " ">>
                           \o pxString(size) \o <<"p", "x", ",", " ", "u", "s", "e", "d", " ">>
                           \o toString10(Cardinality(Group(size)))
                           \o <<" ", "t", "i", "m", "e", "s">>]]

inferDesignTokens(nodes) ==
    detectColorPalette(extractColorsFromNodes(nodes))
    \o detectTypographyScale(extractTypographiesFromNodes(nodes))
    \o detectSpacingSystem(extractSpacingsFromNodes(nodes))

\* CacheManager.tokensKey called without filters
tokensKey(fk, version) == KeyBase(fk, version, "tokens")

(***************************************************************************)
(* Specification SpecTokens: get_design_tokens is called once on a file of *)
(* two pages, or normalizeNode is called on the node below its first page. *)
(***************************************************************************)
MaxKids == 3    \* children of the node below the first page

RootId == "0:0"

\* the node below the first page: its type, visibility and auto-layout
ParentTypes == { "FRAME", "GROUP", "INSTANCE", "REGULAR_POLYGON", "SLICE" }
Visibility == { {}, {TRUE}, {FALSE} }
AutoLayouts ==
    { [layoutMode |-> {}, itemSpacing |-> 0, paddingLeft |-> 0],
      [layoutMode |-> {"HORIZONTAL"}, itemSpacing |-> 32, paddingLeft |-> 0],
      [layoutMode |-> {"VERTICAL"}, itemSpacing |-> 0, paddingLeft |-> 48] }

TextStyle(fontSize) ==
    [fontFamily |-> "Inter", fontSize |-> fontSize, fontWeight |-> 400, lineHeightPx |-> 40,
     letterSpacing |-> 0, textAlignHorizontal |-> "LEFT"]

\* its children: a 14px text, a 24.5px text of weight 650, an invisible text without style
\* and a polygon
KidKinds == { "text", "bigText", "hiddenText", "polygon" }

Kid(id, kind) ==
    CASE kind = "text" ->
           [RawNode(id, <<"O", "K">>, "TEXT") EXCEPT !.style = {TextStyle(28)}]
      [] kind = "bigText" ->
           [RawNode(id, <<"T", "i", "t", "l", "e">>, "TEXT") EXCEPT
               !.style = {[TextStyle(49) EXCEPT !.fontWeight = 650]}]
      [] kind = "hiddenText" ->
           [RawNode(id, <<"O", "K">>, "TEXT") EXCEPT !.visible = {FALSE}]
      [] kind = "polygon" -> RawNode(id, <<"i", "c", "o", "n">>, "REGULAR_POLYGON")

KidLists == { {} } \cup { {l} : l \in UNION { [1..k -> KidKinds] : k \in 0..MaxKids } }

\* a document of two pages; the second page is empty
TokenDoc(type, visible, layout, kids) ==
    LET ids == IF kids = {} THEN <<>> ELSE SubSeq(ChildIds, 1, Len(The(kids)))
    IN  [id \in { RootId, "1:1", "2:1", FrameId } \cup Range(ids) |->
            CASE id = RootId ->
                   [RawNode(id, <<"D", "o", "c">>, "DOCUMENT") EXCEPT
                       !.children = {<<"1:1", "2:1">>}]
              [] id = "1:1" ->
                   [RawNode(id, <<"P", "1">>, "CANVAS") EXCEPT !.children = {<<FrameId>>}]
              [] id = "2:1" -> [RawNode(id, <<"P", "2">>, "CANVAS") EXCEPT !.children = {<<>>}]
              [] id = FrameId ->
                   [RawNode(id, <<"R", "o", "w">>, type) EXCEPT
                       !.visible = visible,
                       !.children = IF kids = {} THEN {} ELSE {ids},
                       !.layoutMode = layout.layoutMode,
                       !.itemSpacing = layout.itemSpacing,
                       !.paddingLeft = layout.paddingLeft]
              [] OTHER -> Kid(id, The(kids)[CHOOSE i \in 1..Len(ids) : ids[i] = id])]

\* the reuse contexts a caller of normalizeNode passes
Contexts ==
    { {} } \cup
    { {[rootComponentId |-> "9:1", rootComponentName |-> <<"b", "t", "n">>,
        nestingPath |-> <<"9:1", FrameId>>, nestingDepth |-> 1,
        instanceCount |-> count, isPrimitive |-> primitive]} :
         count \in { 1, PRIMITIVE_THRESHOLD }, primitive \in BOOLEAN }

InitTokens ==
    /\ NothingRunning
    /\ input \in { {TokenDoc(type, visible, layout, kids)} :
                      type \in ParentTypes, visible \in Visibility,
                      layout \in AutoLayouts, kids \in KidLists }
    /\ output = {}

\* handleGetDesignTokens({fileKey, tokenType}) from look-up to response: the
\* tokens are not cached, getFile fetches and caches the file, the handler
\* normalizes it, infers the tokens, caches them, filters and paginates.
\* `normalized` is the list the handler infers the tokens from.
GetDesignTokens(tokenType) ==
    /\ output = {}
    /\ LET doc == The(input)
           cacheKey == tokensKey(AppFile, {})
           g == mgrGet(Provider, enabled, cacheKey, now)
           f == getFileCheck(g.P, enabled, fileKey(AppFile, {}), now)
           fs == mgrSet(f.P, enabled, fileKey(AppFile, {}), doc, {"file"}, now, MaxSize)
           normalizedNodes == traverseAndNormalize(doc, RootId)
           allTokens == inferDesignTokens(normalizedNodes)
           ts == mgrSet(fs.P, enabled, cacheKey, allTokens, {"tokens"}, now, MaxSize)
           Matches(token) == token.category \in tokenType
           filteredTokens == IF tokenType = {} THEN allTokens
                             ELSE SelectSeq(allTokens, Matches)
       IN  /\ Install(ts.P)
           /\ lastAccess' = Accessed(Accessed(lastAccess, {fileKey(AppFile, {})},
                                              DOMAIN fs.P.cache),
                                     {cacheKey}, DOMAIN ts.P.cache)
           /\ output' = {[call |-> "getDesignTokens", tokenType |-> tokenType, context |-> {},
                          normalized |-> normalizedNodes,
                          response |-> {Paginate(filteredTokens, {}, 0)}]}
    /\ UNCHANGED <<input, now, ret, enabled, appVars, roleVars>>

\* normalizeNode(node, parentId, componentContext) is called on the node
\* below the first page
NormalizeWithContext(componentContext) ==
    /\ output = {}
    /\ LET normalized == normalizeNode(The(input), The(input)[FrameId], {"1:1"},
                                       componentContext)
       IN  output' = {[call |-> "normalizeNode", tokenType |-> {},
                       context |-> componentContext,
                       normalized |-> IF normalized = {} THEN <<>> ELSE <<The(normalized)>>,
                       response |-> {}]}
    /\ UNCHANGED <<input, outsidePure>>

NextTokens ==
    \/ \E tokenType \in { {}, {"spacing"} } : GetDesignTokens(tokenType)
    \/ \E componentContext \in Contexts : NormalizeWithContext(componentContext)

SpecTokens == InitTokens /\ [][NextTokens]_vars

(***************************************************************************)
(* Specification SpecTraverse: the loop of traverseAndNormalize, one       *)
(* iteration per step, on a tree that may be deeper than the depth of the  *)
(* warning.  The loop state is held in output.                             *)
(***************************************************************************)
MaxTreeNodes == 4

TreeIds == << "3:1", "3:2", "3:3", "3:4", "3:5", "3:6", "3:7", "3:8", "3:9", "3:10",
              "3:11", "3:12", "3:13", "3:14", "3:15", "3:16", "3:17", "3:18", "3:19", "3:20" >>

\* the lengths of the chain of frames above the bushy part of the tree
ChainLengths == { 0, MAX_TRAVERSAL_DEPTH }

\* the bushy part: node j > 1 hangs below an earlier node
ParentMaps == UNION { [2..m -> 1..m] : m \in 1..MaxTreeNodes }
Bushes == { P \in ParentMaps : \A j \in DOMAIN P : P[j] < j }

reverse(arr) == [i \in 1..Len(arr) |-> arr[Len(arr) + 1 - i]]

\* a raw tree: a chain of `chain` frames, below it the bush P; the children of
\* a node are listed in the order of their numbers, or in the opposite order;
\* node `hidden` of the bush, if any, is invisible; leaves are texts
TreeDoc(chain, P, reversed, hidden) ==
    LET size == chain + Cardinality(DOMAIN P) + 1
        kids(k) == IF k < chain + 1 THEN {k + 1}
                   ELSE { chain + j : j \in { i \in DOMAIN P : P[i] = k - chain } }
        ordered(k) == IF reversed THEN reverse(sortAscending(kids(k))) ELSE sortAscending(kids(k))
    IN  [id \in { TreeIds[k] : k \in 1..size } |->
            LET k == CHOOSE i \in 1..size : TreeIds[i] = id
            IN  [RawNode(id, <<"n">>, IF kids(k) = {} THEN "TEXT" ELSE "FRAME") EXCEPT
                    !.visible = IF k = chain + hidden THEN {FALSE} ELSE {},
                    !.children = IF kids(k) = {} THEN {}
                                 ELSE {[i \in 1..Len(ordered(k)) |-> TreeIds[ordered(k)[i]]]}]]

InitTraverse ==
    /\ NothingRunning
    /\ input \in { {TreeDoc(chain, P, reversed, hidden)} :
                      chain \in ChainLengths, P \in Bushes, reversed \in BOOLEAN,
                      hidden \in 0..2 }
    /\ output = {}

\* traverseAndNormalize(root) up to the loop: the queue holds the root
TraverseStart ==
    /\ output = {}
    /\ output' = {[call |-> "traverseAndNormalize",
                   queue |-> <<[id |-> TreeIds[1], depth |-> 0, parentId |-> {}]>>,
                   visited |-> <<>>, normalizedNodes |-> <<>>, maxDepthSeen |-> 0,
                   warnings |-> 0, returned |-> FALSE]}
    /\ UNCHANGED <<input, outsidePure>>

\* one iteration of the loop: the head of the queue is taken off, counted,
\* normalized, and its children are put at the end of the queue
TraverseLoop ==
    /\ \E st \in output :
          /\ st.call = "traverseAndNormalize"
          /\ st.queue # <<>>
          /\ LET doc == The(input)
                 entry == Head(st.queue)
                 n == doc[entry.id]
                 normalized == normalizeNode(doc, n, entry.parentId, {})
             IN  output' = {[st EXCEPT
                    !.queue = Tail(st.queue) \o childEntries(n, entry.depth),
                    !.visited = Append(@, entry),
                    !.maxDepthSeen = IF entry.depth > @ THEN entry.depth ELSE @,
                    !.warnings = IF entry.depth = MAX_TRAVERSAL_DEPTH THEN @ + 1 ELSE @,
                    !.normalizedNodes = IF normalized # {} THEN Append(@, The(normalized))
                                        ELSE @]}
    /\ UNCHANGED <<input, outsidePure>>

\* the queue is empty: the function returns normalizedNodes
TraverseReturn ==
    /\ \E st \in output :
          /\ st.call = "traverseAndNormalize"
          /\ st.queue = <<>>
          /\ ~st.returned
          /\ output' = {[st EXCEPT !.returned = TRUE]}
    /\ UNCHANGED <<input, outsidePure>>

NextTraverse ==
    \/ TraverseStart
    \/ TraverseLoop
    \/ TraverseReturn

\* the function is synchronous: once called it runs to its return
SpecTraverse == InitTraverse /\ [][NextTraverse]_vars /\ WF_vars(NextTraverse)

(***************************************************************************)
(* JSON-RPC endpoint: handleRequest.  A body is an object with optional    *)
(* members jsonrpc, method and id, or something that is not an object; a   *)
(* member is {} when absent, else the set of its value tagged with its     *)
(* JavaScript type.                                                        *)
(***************************************************************************)
Json(type, value) == [type |-> type, value |-> value]

NullId == Json("null", "null")

\* body?.id ?? null
requestIdOf(body) ==
    IF body.kind # "object" \/ body.id = {} THEN NullId ELSE The(body.id)

\* validateJsonRpcRequest: the request is valid
validateJsonRpcRequest(body) ==
    /\ body.kind = "object"
    /\ body.jsonrpc = {Json("string", "2.0")}
    /\ \E m \in body.method : m.type = "string"
    /\ \E id \in body.id : id.type \in { "null", "string", "number" }

createSuccessResponse(id) == [jsonrpc |-> "2.0", id |-> id, error |-> {}]
createErrorResponse(id, code) == [jsonrpc |-> "2.0", id |-> id, error |-> {code}]

\* what a handler that may fail comes to: a result, an error response, an
\* exception carrying a JSON-RPC code, or any other exception
HandlerOutcomes == { "result", "INVALID_PARAMS", "thrown-code", "thrown" }

\* the outcome is an exception that leaves the handler
Throws(outcome) == outcome \in { "thrown-code", "thrown" }

\* handleToolsCall and handleResourcesRead when they return a response
callHandler(id, outcome) ==
    IF outcome = "result" THEN createSuccessResponse(id)
    ELSE createErrorResponse(id, "INVALID_PARAMS")

\* handleRequest: {} for null, else the response
handleRequest(body, outcome) ==
    LET requestId == requestIdOf(body)
    IN  IF ~validateJsonRpcRequest(body)
        THEN {createErrorResponse(requestId, "INVALID_REQUEST")}
        ELSE LET method == The(body.method).value
                 id == The(body.id)
             IN  CASE method \in { "initialize", "manifest", "tools/list", "resources/list" } ->
                        {createSuccessResponse(id)}
                   [] method = "notifications/initialized" -> {}
                   [] method \in { "tools/call", "resources/read" } ->
                        IF ~Throws(outcome) THEN {callHandler(id, outcome)}
                        ELSE IF outcome = "thrown-code"
                        THEN {createErrorResponse(requestId, "code of the error")}
                        ELSE {createErrorResponse(requestId, "INTERNAL_ERROR")}
                   [] OTHER -> {createErrorResponse(id, "METHOD_NOT_FOUND")}

(***************************************************************************)
(* Specification SpecRpc: one message is handed to handleRequest.          *)
(***************************************************************************)
Methods == { {}, {Json("number", "42")} } \cup
           { {Json("string", m)} :
                m \in { "initialize", "notifications/initialized", "manifest", "tools/list",
                        "tools/call", "resources/list", "resources/read", "ping" } }

Ids == { {}, {NullId}, {Json("number", "7")}, {Json("string", "a")}, {Json("boolean", "true")} }

JsonRpcVersions == { {}, {Json("string", "2.0")}, {Json("string", "1.0")} }

Bodies ==
    [kind : {"object"}, jsonrpc : JsonRpcVersions, method : Methods, id : Ids]
    \cup [kind : {"null", "string"}, jsonrpc : {{}}, method : {{}}, id : {{}}]

InitRpc ==
    /\ NothingRunning
    /\ input \in { {body} : body \in Bodies }
    /\ output = {}

\* the message is handled; stdio writes the response unless it is null
HandleRequest(outcome) ==
    /\ output = {}
    /\ output' = {[call |-> "handleRequest", outcome |-> outcome,
                   response |-> handleRequest(The(input), outcome)]}
    /\ UNCHANGED <<input, outsidePure>>

NextRpc == \E outcome \in HandlerOutcomes : HandleRequest(outcome)

SpecRpc == InitRpc /\ [][NextRpc]_vars

(***************************************************************************)
(* Specification SpecPalette: the tokens of a frame of coloured texts.     *)
(***************************************************************************)
MaxPaints == 3

Rgba(r, g, b, a) == [r |-> r, g |-> g, b |-> b, a |-> a]

\* the text colours: white, mid gray and black, opaque and half transparent,
\* a dark gray, a red, a blue and a purple
PaintColors ==
    { Rgba(v, v, v, a) : v \in { 0, 500, 1000 }, a \in { 500, 1000 } }
    \cup { Rgba(200, 200, 200, 1000), Rgba(1000, 0, 0, 1000), Rgba(200, 500, 800, 1000),
           Rgba(500, 200, 800, 1000) }

\* the fills of a text: none, or one solid paint
TextFills == { <<>> } \cup { <<[type |-> "SOLID", color |-> {c}]>> : c \in PaintColors }

FillLists == UNION { [1..k -> TextFills] : k \in 0..MaxPaints }

\* a horizontal auto-layout frame (gap 16px) holding one 14px text per fill
PaintDoc(fills) ==
    [id \in { FrameId } \cup { ChildIds[i] : i \in 1..Len(fills) } |->
        IF id = FrameId
        THEN [RawNode(FrameId, <<"R", "o", "w">>, "FRAME") EXCEPT
                 !.layoutMode = {"HORIZONTAL"}, !.itemSpacing = 32,
                 !.children = {SubSeq(ChildIds, 1, Len(fills))}]
        ELSE [RawNode(id, <<"O", "K">>, "TEXT") EXCEPT
                 !.style = {TextStyle(28)},
                 !.fills = fills[CHOOSE i \in 1..Len(fills) : ChildIds[i] = id]]]

InitPalette ==
    /\ NothingRunning
    /\ input \in { {PaintDoc(fills)} : fills \in FillLists }
    /\ output = {}

\* the frame is normalized and its tokens are inferred
InferDesignTokens ==
    /\ output = {}
    /\ LET normalizedNodes == traverseAndNormalize(The(input), FrameId)
       IN  output' = {[call |-> "inferDesignTokens", normalized |-> normalizedNodes,
                       tokens |-> inferDesignTokens(normalizedNodes)]}
    /\ UNCHANGED <<input, outsidePure>>

NextPalette == InferDesignTokens

SpecPalette == InitPalette /\ [][NextPalette]_vars

(***************************************************************************)
(* Properties of the store                                                 *)
(***************************************************************************)
\* the step is a call of the method `op` on the store
CallStep(op) == ret'.n # ret.n /\ ret'.op = op

StoredKeys == DOMAIN cache

\* C1: a set of a key that is not stored, made while the store holds exactly
\* maxSize entries, removes exactly one entry, the one whose last access (set
\* or non-expired get) is the oldest, and keeps every other entry as it was.
C1_EvictsLeastRecentlyAccessed ==
    [][ (CallStep("set") /\ ret'.key \notin StoredKeys /\ Cardinality(StoredKeys) = MaxSize)
        => \E lru \in StoredKeys :
              /\ \A j \in StoredKeys : lastAccess[lru] <= lastAccess[j]
              /\ ret'.removed = {lru}
              /\ DOMAIN cache' = (StoredKeys \ {lru}) \cup {ret'.key}
              /\ \A j \in StoredKeys \ {lru} : cache'[j] = cache[j] ]_vars

\* a full store whose last call was a set that evicted, after a read had
\* made the insertion order and the access order differ
C1_Witness ==
    /\ ret.op = "set"
    /\ ret.removed # {}
    /\ ret.key \notin ret.removed
    /\ hits > 0
    /\ Cardinality(StoredKeys) = MaxSize

\* more than ttl seconds have passed since the entry of `key` was set
Elapsed(key) == \E n \in cache[key].ttl : now - cache[key].timestamp > n * 1000

\* C2, first part: a get of a key whose ttl has elapsed returns a miss and
\* removes the key from the entry map and from the LRU order; size() drops by 1.
C2_ExpiredReadRemoves ==
    [][ \A k \in StoredKeys :
          (CallStep("get") /\ ret'.key = k /\ Elapsed(k))
          => /\ ret'.result = Null
             /\ misses' = misses + 1
             /\ k \notin DOMAIN cache'
             /\ k \notin Range(accessOrder')
             /\ Cardinality(DOMAIN cache') = Cardinality(StoredKeys) - 1 ]_vars

\* C2 as claimed: an expired entry leaves the store only by a read of its own
\* key or by LRU pressure on a write.
C2_OnlyReadOrEviction ==
    [][ \A k \in StoredKeys \ DOMAIN cache' :
          Elapsed(k)
          => \/ CallStep("get") /\ ret'.key = k
             \/ CallStep("set") /\ ret'.key \notin StoredKeys
                                /\ Cardinality(StoredKeys) >= MaxSize ]_vars

\* C2 as amended: an expired read removes the entry, and an expired entry
\* leaves the store only by a read of its own key, by LRU pressure on a write
\* or by an explicit delete, invalidate or clear; the passing of time alone
\* removes nothing.
C2_ExpiryIsLazy ==
    /\ C2_ExpiredReadRemoves
    /\ [][ \A k \in StoredKeys \ DOMAIN cache' :
             Elapsed(k)
             => \/ CallStep("get") /\ ret'.key = k
                \/ CallStep("set") /\ ret'.key \notin StoredKeys
                                   /\ Cardinality(StoredKeys) >= MaxSize
                \/ CallStep("delete") /\ ret'.key = k
                \/ CallStep("invalidate")
                \/ CallStep("clear") ]_vars
    /\ [][ now' # now => cache' = cache /\ accessOrder' = accessOrder ]_vars

\* an expired entry has just been read: a miss that removed the key
C2_Witness ==
    /\ ret.op = "get"
    /\ ret.result = Null
    /\ ret.removed = {ret.key}
    /\ now > 0

\* C3: a get that directly follows set(k, v, ttl), ttl positive and the clock
\* not advanced beyond it, is a hit that returns v.
C3_SetThenGet ==
    [][ (ret.op = "set" /\ CallStep("get") /\ ret'.key = ret.key
         /\ \E n \in ret.arg[2] : n > 0 /\ now - cache[ret.key].timestamp <= n * 1000)
        => /\ ret'.result = ret.arg[1]
           /\ hits' = hits + 1 ]_vars

\* a hit on the key written by the set made just before, a set that had
\* evicted another entry, with the clock advanced in between
C3_Witness ==
    /\ ret.op = "get"
    /\ ret.arg.op = "set"
    /\ ret.arg.key = ret.key
    /\ ret.arg.removed # {}
    /\ ret.result \in Values
    /\ now > cache[ret.key].timestamp

\* glob matching as the specification states it: `*` matches any sequence of
\* characters, every other character matches itself, over the whole key
RECURSIVE GlobMatch(_, _)
GlobMatch(pattern, key) ==
    IF pattern = <<>> THEN key = <<>>
    ELSE IF Head(pattern) = "*"
         THEN GlobMatch(Tail(pattern), key) \/ (key # <<>> /\ GlobMatch(pattern, Tail(key)))
    ELSE key # <<>> /\ Head(key) = Head(pattern) /\ GlobMatch(Tail(pattern), Tail(key))

\* the elements of s that are in `keep`, in the order of s
RECURSIVE Restrict(_, _)
Restrict(s, keep) ==
    IF s = <<>> THEN <<>>
    ELSE (IF Head(s) \in keep THEN <<Head(s)>> ELSE <<>>) \o Restrict(Tail(s), keep)

\* C7: invalidate(pattern) removes exactly the stored keys the glob matches,
\* returns their number, and leaves the other entries and their relative LRU
\* order unchanged.
C7_InvalidateExactlyMatching ==
    [][ CallStep("invalidate")
        => LET matching == { k \in StoredKeys : GlobMatch(ret'.key, k) }
           IN  /\ DOMAIN cache' = StoredKeys \ matching
               /\ ret'.result = Cardinality(matching)
               /\ \A k \in StoredKeys \ matching : cache'[k] = cache[k]
               /\ accessOrder' = Restrict(accessOrder, StoredKeys \ matching) ]_vars


(***************************************************************************)
(* Properties of the CacheManager                                          *)
(***************************************************************************)
\* C6: with config.enabled false, get returns a miss, set stores nothing, and
\* neither changes the provider's entries, LRU order or hit/miss counters.
C6_DisabledTouchesNothing ==
    [][ (~enabled /\ (CallStep("mgrGet") \/ CallStep("mgrSet")))
        => /\ ret'.result = Null
           /\ cache' = cache
           /\ accessOrder' = accessOrder
           /\ hits' = hits
           /\ misses' = misses ]_vars

\* a disabled manager has just answered a miss for a key the provider holds,
\* unexpired
C6_Witness ==
    /\ ~enabled
    /\ ret.op = "mgrGet"
    /\ ret.key \in StoredKeys
    /\ ~Elapsed(ret.key)
    /\ ret.result = Null

\* C8: an entry written through CacheManager.set with a kind is stored with a
\* finite TTL, the one configured for the kind; with no kind, with defaultTTL.
C8_EveryKindHasTTL ==
    [][ (enabled /\ CallStep("mgrSet"))
        => /\ ret'.key \in DOMAIN cache'
           /\ Cardinality(cache'[ret'.key].ttl) = 1
           /\ ret'.arg[2] = {} => cache'[ret'.key].ttl = {DefaultTTL} ]_vars

(***************************************************************************)
(* Properties of the server's cache under concurrent tool calls (SpecApp)  *)
(***************************************************************************)
InFlight(r) == reqs[r].pc \in {"needFile", "fetching", "process"}

\* C4: under every interleaving of the cache calls of concurrent requests
\* (get, set, delete, invalidate, clear), the LRU access-order list holds
\* exactly the keys of the entry map, each exactly once.
C4_AccessOrderIsEntryKeys ==
    /\ Len(accessOrder) = Cardinality(DOMAIN cache)
    /\ Range(accessOrder) = DOMAIN cache

\* a tool call has overlapped one started after it (the later one is answered,
\* the earlier one still in flight), the store is full, and an entry has been
\* read again after it was stored
C4_Witness ==
    /\ \E r, q \in 1..NumReqs : r < q /\ InFlight(r) /\ reqs[q].pc = "done"
    /\ Len(accessOrder) = MaxSize
    /\ hits > 0

\* C5: the response of every caching tool handler is the one computed fresh
\* from the upstream file, whether or not its collection came from the cache
\* as an earlier request with other filters or pagination left it.
C5_CachedEqualsFresh ==
    \A r \in 1..NumReqs :
        (reqs[r].pc = "done" /\ \E resp \in reqs[r].response : resp.ok)
            => reqs[r].response = {Fresh(InputOf(r))}

\* C9: with caching enabled, a successful getFile leaves the response in the
\* cache under fileKey(fileKey, version) with the file TTL, nothing else is
\* ever stored under such a key, and a getFile that finds the entry within the
\* file TTL returns it and sends no upstream request.
C9_SecondGetFileHits ==
    [][\A r \in 1..NumReqs :
          /\ (enabled /\ reqs[r].pc = "fetching" /\ reqs'[r].pc = "process")
                => LET key == fileKey(AppFile, InputOf(r).version)
                   IN  /\ key \in DOMAIN cache'
                       /\ cache'[key] = [data |-> Upstream(AppFile, InputOf(r).version),
                                         timestamp |-> now, ttl |-> {FileTTL}]
          /\ \A v \in Versions :
                fileKey(AppFile, v) \in DOMAIN cache'
                    => /\ cache'[fileKey(AppFile, v)].data = Upstream(AppFile, v)
                       /\ cache'[fileKey(AppFile, v)].ttl = {FileTTL}
          /\ (enabled /\ reqs[r].pc = "needFile" /\ reqs'[r].pc # "needFile")
                => LET key == fileKey(AppFile, InputOf(r).version)
                   IN  (key \in DOMAIN cache /\ now - cache[key].timestamp <= FileTTL * 1000)
                           => /\ reqs'[r].pc = "process"
                              /\ reqs'[r].cached
                              /\ reqs'[r].file = {Upstream(AppFile, InputOf(r).version)}
      ]_vars

\* a getFile has returned the cached file some time after it was stored
C9_Witness ==
    \E r \in 1..NumReqs :
        /\ reqs[r].pc = "process"
        /\ reqs[r].cached
        /\ enabled
        /\ fileKey(AppFile, InputOf(r).version) \in DOMAIN cache
        /\ now > cache[fileKey(AppFile, InputOf(r).version)].timestamp

(***************************************************************************)
(* Properties of the role classifier (SpecRole)                            *)
(***************************************************************************)
\* C10: whenever the structural tier yields a role for a node,
\* identifySemanticRole returns that role; when the naming tier matches a
\* different role the result is the structural one unchanged, with method
\* structural (never hybrid, never the naming role).
C10_StructuralWins ==
    \A n \in node :
        LET structuralRole == detectFromStructure(n)
            namingRole == detectFromNaming(n)
        IN  structuralRole # {}
                => /\ The(role).role = The(structuralRole).role
                   /\ (namingRole # {} /\ The(namingRole).role # The(structuralRole).role)
                         => /\ The(role).detectionMethod = "structural"
                            /\ The(role).confidence = The(structuralRole).confidence

\* a node whose structure says card below the 0.7 threshold while its name
\* says input has been classified
C10_Witness ==
    \E n \in node :
        /\ detectFromStructure(n) = {RoleResult("card", 65, "structural")}
        /\ detectFromNaming(n) = {RoleResult("input", 40, "naming")}
        /\ role = {RoleResult("card", 65, "structural")}

\* both tiers match node n and name the same role
TiersAgree(n) ==
    /\ detectFromStructure(n) # {}
    /\ detectFromNaming(n) # {}
    /\ The(detectFromStructure(n)).role = The(detectFromNaming(n)).role

\* min(confidence + 0.2, 1.0) and method hybrid
Boosted(r) ==
    RoleResult(r.role, IF r.confidence + 20 < 100 THEN r.confidence + 20 ELSE 100, "hybrid")

\* C11 as stated: whenever the structural and the naming tier agree on the
\* role, the result is that role with confidence min(structural + 0.2, 1.0)
\* and method hybrid.
C11_AgreeIsHybrid ==
    \A n \in node : TiersAgree(n) => role = {Boosted(The(detectFromStructure(n)))}

\* C11: when the two tiers agree and the structural tier did not short-circuit
\* (its confidence is at most 0.7), the result is that role with confidence
\* min(structural + 0.2, 1.0) and method hybrid; a structural result above 0.7
\* is returned as it is, method structural, whatever the name says.
C11_AgreeBelowThresholdIsHybrid ==
    \A n \in node :
        TiersAgree(n) =>
            IF The(detectFromStructure(n)).confidence > 70
            THEN role = detectFromStructure(n)
            ELSE role = {Boosted(The(detectFromStructure(n)))}

\* a list by structure (0.7) that is also a list by name has been classified
\* as list, 0.9, hybrid
C11_Witness ==
    \E n \in node :
        /\ detectFromStructure(n) = {RoleResult("list", 70, "structural")}
        /\ detectFromNaming(n) = {RoleResult("list", 40, "naming")}
        /\ role = {RoleResult("list", 90, "hybrid")}

(***************************************************************************)
(* Properties of the colour conversion (SpecColor)                         *)
(***************************************************************************)
\* |out / 255 - c / ColorSteps| <= 1 / 255, out being a number
Within255th(out, c) ==
    /\ out # {}
    /\ The(out) * ColorSteps - c * 255 <= ColorSteps
    /\ c * 255 - The(out) * ColorSteps <= ColorSteps

\* C20: for every colour c with channels and alpha in [0,1],
\* hexToRgba(rgbaToHex(c)) is within 1/255 of c in each of r, g, b and a,
\* whether the alpha is written into the hex string (a < 1) or left out.
C20_RoundTripWithin255th ==
    \A back \in output :
        /\ Within255th(back.r, The(input).r)
        /\ Within255th(back.g, The(input).g)
        /\ Within255th(back.b, The(input).b)
        /\ Within255th(back.a, The(input).a)

\* a colour with a channel below 16/255 and an alpha below 1 that is not a
\* multiple of 1/255 has made the round trip
C20_Witness ==
    \E back \in output :
        /\ The(input).a < ColorSteps
        /\ back.a # {} /\ The(back.a) * ColorSteps # The(input).a * 255
        /\ back.r # {} /\ The(back.r) < 16 /\ The(back.r) > 0

(***************************************************************************)
(* Properties of the spacing scale (SpecSpacing)                           *)
(***************************************************************************)
\* the greatest number (of half pixels) that divides every value of a
\* non-empty set
GreatestCommonDivisor(set) ==
    CHOOSE d \in 1..(CHOOSE x \in set : TRUE) :
        /\ \A x \in set : x % d = 0
        /\ \A e \in 1..(CHOOSE x \in set : TRUE) : (\A x \in set : x % e = 0) => e <= d

\* the description that reports multiplier m of a base unit
DescriptionOf(m, baseUnit) ==
    toString10(m) \o <<"x", " ", "b", "a", "s", "e", " ", "u", "n", "i", "t", " ", "(">>
    \o pxString(baseUnit) \o <<"p", "x", ")">>

\* the tokens are one per distinct non-zero value, ascending, and each reports
\* the GCD of the values as base unit and a multiplier m with
\* m x base unit = value
IsSpacingScaleOf(tokens, values) ==
    /\ Len(tokens) = Cardinality(values)
    /\ { tokens[i].value : i \in 1..Len(tokens) } = values
    /\ \A i \in 1..(Len(tokens) - 1) : tokens[i].value < tokens[i + 1].value
    /\ \A i \in 1..Len(tokens) :
          \E m \in 1..tokens[i].value :
              /\ m * GreatestCommonDivisor(values) = tokens[i].value
              /\ tokens[i].description = DescriptionOf(m, GreatestCommonDivisor(values))

\* C18 as stated: for any positive spacing values the tokens are the scale of
\* the distinct non-zero values, with their GCD as base unit and exact
\* multipliers.
C18_SpacingScale ==
    \A tokens \in output :
        IsSpacingScaleOf(tokens, { x \in Range(The(input)) : x > 0 })

\* C18: for positive whole-pixel spacing values the tokens are the scale of
\* the distinct non-zero values, with their GCD as base unit and exact
\* multipliers.
C18_WholePixelSpacingScale ==
    \A tokens \in output :
        (\A x \in Range(The(input)) : x % 2 = 0)
            => IsSpacingScaleOf(tokens, { x \in Range(The(input)) : x > 0 })

\* [8, 16, 24] has given base unit 8 and multipliers 1, 2, 3
C18_Witness ==
    /\ input = {<<16, 32, 48>>}
    /\ \E tokens \in output :
          /\ Len(tokens) = 3
          /\ tokens[1].description = DescriptionOf(1, 16)
          /\ tokens[2].description = DescriptionOf(2, 16)
          /\ tokens[3].description =
                <<"3", "x", " ", "b", "a", "s", "e", " ", "u", "n", "i", "t", " ", "(", "8", "p", "x", ")">>

(***************************************************************************)
(* Properties of the layout strategy (SpecLayout)                          *)
(***************************************************************************)
\* the boxes of the children of the frame in `input`
FrameBoxes ==
    LET doc == The(input)
        ids == The(doc[FrameId].children)
    IN  { <<i, The(doc[ids[i]].absoluteBoundingBox)>> :
             i \in { j \in 1..Len(ids) : doc[ids[j]].absoluteBoundingBox # {} } }

\* the distinct X and Y positions of those boxes, rounded to whole pixels
\* (half a pixel rounds up)
DistinctX == { (b[2].x + 1) \div 2 : b \in FrameBoxes }
DistinctY == { (b[2].y + 1) \div 2 : b \in FrameBoxes }

IsGrid ==
    /\ Cardinality(FrameBoxes) >= 4
    /\ Cardinality(DistinctX) >= 2
    /\ Cardinality(DistinctY) >= 2

\* C14: a frame in HORIZONTAL or VERTICAL auto-layout is a grid-candidate
\* exactly when at least 4 children have boxes on at least 2 distinct rounded
\* X and 2 distinct rounded Y positions, its columns and rows are then the
\* numbers of distinct X and Y values, and otherwise it is a flexbox.
C14_GridCandidateIffTwoAxes ==
    \A layout \in output :
        The(input)[FrameId].layoutMode \in { {"HORIZONTAL"}, {"VERTICAL"} } =>
            /\ layout.strategy = (IF IsGrid THEN "grid-candidate" ELSE "flexbox")
            /\ IsGrid => /\ layout.grid # {}
                         /\ The(layout.grid).columns = Cardinality(DistinctX)
                         /\ The(layout.grid).rows = Cardinality(DistinctY)

\* 6 children on 3 X values and 2 Y values have given columns=3, rows=2
C14_Witness ==
    /\ \E layout \in output :
          /\ layout.strategy = "grid-candidate"
          /\ The(layout.grid).columns = 3
          /\ The(layout.grid).rows = 2
    /\ input # {}
    /\ Cardinality(FrameBoxes) = 6

\* 6 children sharing a single X value have given a flexbox
C14_WitnessFlexbox ==
    /\ \E layout \in output : layout.strategy = "flexbox" /\ layout.flexbox # {}
    /\ input # {}
    /\ Cardinality(FrameBoxes) = 6
    /\ Cardinality(DistinctX) = 1

(***************************************************************************)
(* Properties of trackComponentReuse (SpecReuse)                           *)
(***************************************************************************)
\* the depth of node id below node root (0 for the root itself), or no depth
\* when id is not in the subtree of root
RECURSIVE DepthBelow(_, _, _)
DepthBelow(doc, root, id) ==
    IF root = id THEN {0}
    ELSE { d + 1 : d \in UNION { DepthBelow(doc, childIds(doc[root])[i], id) :
                                    i \in 1..Len(childIds(doc[root])) } }

\* the depths at which id lies below the nodes of the list
DepthsFromRoots(in, id) ==
    UNION { DepthBelow(in.doc, in.nodes[i], id) : i \in 1..Len(in.nodes) }

MaxDepthOf(in) == IF in.maxDepth = {} THEN MAX_REUSE_DEPTH ELSE The(in.maxDepth)

\* C15: every instance recorded for a component is an instance of that
\* component lying at most maxDepth levels below a node of the list (so an
\* instance found only deeper than maxDepth is not recorded), and no instance
\* id is recorded more than once in the whole map.
C15_ReuseWithinMaxDepth ==
    \A reuseMap \in output :
        LET in == The(input)
        IN  /\ \A c \in DOMAIN reuseMap : \A i \in 1..Len(reuseMap[c]) :
                  /\ in.doc[reuseMap[c][i]].type = "INSTANCE"
                  /\ in.doc[reuseMap[c][i]].componentId = {c}
                  /\ \E d \in DepthsFromRoots(in, reuseMap[c][i]) : d <= MaxDepthOf(in)
            /\ \A c, e \in DOMAIN reuseMap : \A i \in 1..Len(reuseMap[c]) :
                  \A j \in 1..Len(reuseMap[e]) :
                      reuseMap[c][i] = reuseMap[e][j] => c = e /\ i = j

\* an instance of C one level deeper than maxDepth was left out while a
\* shallower instance of C was recorded
C15_Witness ==
    /\ input # {}
    /\ \E reuseMap \in output :
          /\ "C" \in DOMAIN reuseMap
          /\ \E id \in ReuseIds :
                /\ The(input).doc[id].componentId = {"C"}
                /\ DepthsFromRoots(The(input), id) = {MaxDepthOf(The(input)) + 1}
                /\ id \notin Range(reuseMap["C"])

(***************************************************************************)
(* Properties of the normalizer and the token pipeline (SpecTokens)        *)
(***************************************************************************)
\* the document with every invisible node made visible
Reveal(doc) ==
    [id \in DOMAIN doc |->
        IF doc[id].visible = {FALSE} THEN [doc[id] EXCEPT !.visible = {TRUE}] ELSE doc[id]]

\* C12: no invisible node is normalized, and the traversal yields for the
\* other nodes, descendants of invisible nodes included, exactly what it
\* yields for them when every node is visible: the same normalized nodes in
\* the same order, each with the id of its parent as parentId.
C12_HiddenNodesDroppedSubtreesKept ==
    \A out \in output :
        out.call = "getDesignTokens" =>
            LET doc == The(input)
                Shown(n) == doc[n.id].visible # {FALSE}
            IN  /\ \A i \in 1..Len(out.normalized) : Shown(out.normalized[i])
                /\ out.normalized = SelectSeq(traverseAndNormalize(Reveal(doc), RootId), Shown)
                /\ \A i \in 1..Len(out.normalized) :
                      \A id \in DOMAIN doc :
                          out.normalized[i].id \in Range(childIds(doc[id]))
                              => out.normalized[i].parentId = {id}

\* a text below an invisible frame has been normalized with the frame as its
\* parent, and the frame has not
C12_Witness ==
    /\ input # {}
    /\ \E out \in output :
          /\ out.call = "getDesignTokens"
          /\ The(input)[FrameId].visible = {FALSE}
          /\ \E i \in 1..Len(out.normalized) :
                /\ out.normalized[i].nodeType = "text"
                /\ out.normalized[i].parentId = {FrameId}
          /\ \A i \in 1..Len(out.normalized) : out.normalized[i].id # FrameId

\* the types of VectorNode
VectorTypes == { "VECTOR", "STAR", "LINE", "ELLIPSE", "REGULAR_POLYGON", "RECTANGLE" }

KnownTypes ==
    { "FRAME", "CANVAS", "TEXT", "COMPONENT", "COMPONENT_SET", "INSTANCE" } \cup VectorTypes

\* C13: a node not marked invisible is dropped only when it is a leaf of an
\* unknown type; every shape/vector-like node becomes a visual node and every
\* other node of an unknown type that has children becomes a layout node
\* with strategy none.
C13_OnlyUnknownLeavesDropped ==
    \A out \in output :
        out.call = "getDesignTokens" =>
            \A id \in DOMAIN The(input) :
                LET n == The(input)[id]
                    found == { i \in 1..Len(out.normalized) : out.normalized[i].id = id }
                    nodeTypes == { out.normalized[i].nodeType : i \in found }
                IN  n.visible # {FALSE} =>
                       /\ found = {} => childIds(n) = <<>> /\ n.type \notin KnownTypes
                       /\ n.type \in VectorTypes => nodeTypes = {"visual"}
                       /\ n.type \notin KnownTypes /\ childIds(n) # <<>> =>
                             /\ nodeTypes = {"layout"}
                             /\ \A i \in found : out.normalized[i].data.strategy = "none"

\* C16: every reuse record of a normalized component node has
\* isPrimitive = (instanceCount >= PRIMITIVE_THRESHOLD), whether normalizeNode
\* built the record or took it from the caller's context.
C16_IsPrimitiveIffThreshold ==
    \A out \in output :
        \A i \in 1..Len(out.normalized) :
            out.normalized[i].nodeType = "component" =>
                out.normalized[i].data.reuse.isPrimitive
                    = (out.normalized[i].data.reuse.instanceCount >= PRIMITIVE_THRESHOLD)

\* the document of the scenario: a frame in HORIZONTAL auto-layout with
\* itemSpacing 16 and three 14px texts of weight 400 on the first of two pages
ScenarioDoc ==
    TokenDoc("FRAME", {}, [layoutMode |-> {"HORIZONTAL"}, itemSpacing |-> 32, paddingLeft |-> 0],
             {<<"text", "text", "text">>})

\* the tokens get_design_tokens has returned
ReturnedTokens(out) == The(out.response).items

\* C19: for the scenario the tokens returned to a call without filter hold
\* exactly one spacing-* token, valued 16, and one typography token whose
\* description includes "used 3 times".
C19_ScenarioTokens ==
    \A out \in output :
        input = {ScenarioDoc} /\ out.call = "getDesignTokens" /\ out.tokenType = {} =>
            LET tokens == ReturnedTokens(out)
                spacing == { i \in 1..Len(tokens) :
                    /\ Len(tokens[i].name) >= 8
                    /\ SubSeq(tokens[i].name, 1, 8) = <<"s", "p", "a", "c", "i", "n", "g", "-">> }
                typography == { i \in 1..Len(tokens) : tokens[i].category = "typography" }
            IN  /\ Cardinality(spacing) = 1
                /\ \A i \in spacing : tokens[i].value = 32
                /\ Cardinality(typography) = 1
                /\ \A i \in typography :
                      includes(tokens[i].description,
                               <<"u", "s", "e", "d", " ", "3", " ", "t", "i", "m", "e", "s">>)


\* the step is a set that evicts by the rule: a key not stored, store full
EvictingSet == CallStep("set") /\ ret'.key \notin StoredKeys /\ Cardinality(StoredKeys) >= MaxSize

\* the entries of `keys` are after the step what they were before it
Kept(keys) == \A j \in keys : j \in DOMAIN cache' /\ cache'[j] = cache[j]

\* C25: only a set of a key that is not stored, made at capacity, evicts: a
\* get, a delete, any other set keep every entry but the one of their key,
\* an invalidate keeps every entry its pattern does not match; a set of a
\* stored key puts the new value, timestamp and ttl under that key and leaves
\* size() as it was.
C25_EvictionOnlyOnNewKeyAtCapacity ==
    [][ /\ (CallStep("get") \/ CallStep("delete") \/ (CallStep("set") /\ ~EvictingSet))
            => Kept(StoredKeys \ {ret'.key})
        /\ CallStep("invalidate")
            => Kept({ j \in StoredKeys : ~regexTest(patternToRegex(ret'.key), j) })
        /\ (CallStep("set") /\ ret'.key \in StoredKeys)
            => /\ cache'[ret'.key] = [data |-> ret'.arg[1], timestamp |-> now, ttl |-> ret'.arg[2]]
               /\ DOMAIN cache' = StoredKeys
               /\ Cardinality(DOMAIN cache') = Cardinality(StoredKeys) ]_vars

\* a full store whose last call was a set of a key it already held, made
\* after the clock had advanced past the other entries
C25_Witness ==
    /\ ret.op = "set"
    /\ ret.arg[3]
    /\ ret.removed = {}
    /\ Cardinality(StoredKeys) = MaxSize
    /\ \A j \in StoredKeys \ {ret.key} : cache[j].timestamp < now

\* C26: size() never exceeds maxSize.
C26_SizeWithinMaxSize == providerSize(Provider) <= MaxSize

\* a full store whose last call was a set of a new key that had to evict
C26_Witness ==
    /\ ret.op = "set"
    /\ ~ret.arg[3]
    /\ ret.removed # {}
    /\ providerSize(Provider) = MaxSize


(***************************************************************************)
(* Properties of the classifier, continued (SpecRole)                      *)
(***************************************************************************)
\* the first of the three results that is not null, else unknown at 0
FirstNonNull(structural, componentType, naming) ==
    IF structural # {} THEN structural
    ELSE IF componentType # {} THEN componentType
    ELSE IF naming # {} THEN naming
    ELSE {RoleResult("unknown", 0, "hybrid")}

\* C27: when the structural and the naming tier do not both match, the result
\* is the first non-null of structural, component-type, naming; the role is
\* unknown, with confidence 0, exactly when no tier matches.
C27_FallbackOrder ==
    \A n \in node :
        LET structural == detectFromStructure(n)
            componentType == detectFromComponentType(n)
            naming == detectFromNaming(n)
        IN  /\ (structural = {} \/ naming = {})
                => role = FirstNonNull(structural, componentType, naming)
            /\ (\E r \in role : r.role = "unknown")
                <=> (structural = {} /\ componentType = {} /\ naming = {})
            /\ \A r \in role : r.role = "unknown" => r.confidence = 0

\* an instance without structural match whose name holds a naming keyword has
\* been classified as container, 0.6, by its component type
C27_Witness ==
    \E n \in node :
        /\ n.type = "INSTANCE"
        /\ detectFromStructure(n) = {}
        /\ detectFromNaming(n) # {}
        /\ role = {RoleResult("container", 60, "component-type")}

\* the node is a frame with at least one stroke and a single child, a text
BorderedFrameWithText(n) ==
    /\ n.type = "FRAME"
    /\ n.strokes
    /\ n.children = {<<"TEXT">>}

\* C28 as stated: every frame with a border and a single text child is
\* classified by the structural tier as input, 0.8.
C28_BorderedFrameIsInput ==
    \A n \in node :
        BorderedFrameWithText(n)
        => detectFromStructure(n) = {RoleResult("input", 80, "structural")}

\* C28: every frame with a border and a single text child that has a bounding
\* box and neither fill nor background colour is classified by the structural
\* tier as input, 0.8, and that is the role of the node.
C28_UnfilledBorderedFrameIsInput ==
    \A n \in node :
        (BorderedFrameWithText(n) /\ n.absoluteBoundingBox /\ ~n.fills /\ ~n.backgroundColor)
        => /\ detectFromStructure(n) = {RoleResult("input", 80, "structural")}
           /\ role = {RoleResult("input", 80, "structural")}

\* an unfilled bordered frame with one text child, named without any input
\* keyword, has been classified as input
C28_Witness ==
    \E n \in node :
        /\ BorderedFrameWithText(n)
        /\ ~n.fills /\ ~n.backgroundColor
        /\ detectFromNaming(n) = {}
        /\ role = {RoleResult("input", 80, "structural")}


(***************************************************************************)
(* Properties of the layout, continued (SpecLayout)                        *)
(***************************************************************************)
\* the justify-content the documentation gives for a raw primary alignment
JustifyContentOf(align) ==
    CASE align = {"MIN"} -> "flex-start"
      [] align = {"CENTER"} -> "center"
      [] align = {"MAX"} -> "flex-end"
      [] align = {"SPACE_BETWEEN"} -> "space-between"
      [] align = {"SPACE_AROUND"} -> "space-around"
      [] align = {"SPACE_EVENLY"} -> "space-evenly"
      [] OTHER -> "flex-start"

\* the align-items the documentation gives for a raw counter alignment
AlignItemsOf(align) ==
    CASE align = {"MIN"} -> "flex-start"
      [] align = {"CENTER"} -> "center"
      [] align = {"MAX"} -> "flex-end"
      [] align = {"BASELINE"} -> "baseline"
      [] OTHER -> "stretch"

\* C21: the flexbox rules of a normalized layout node carry the
\* justify-content and align-items that the two tables give for the raw
\* alignments of the node.
C21_AlignmentTables ==
    \A doc \in input : \A intent \in output : \A rules \in intent.flexbox :
        /\ rules.justifyContent = JustifyContentOf(doc[FrameId].primaryAxisAlignItems)
        /\ rules.alignItems = AlignItemsOf(doc[FrameId].counterAxisAlignItems)


\* the style mapper's normalizeFontWeight: Math.round(weight / 100) * 100,
\* clamped to [100, 900]
normalizeFontWeight(weight) ==
    LET rounded == RoundDiv(weight, 100) * 100
    IN  IF rounded < 100 THEN 100 ELSE IF rounded > 900 THEN 900 ELSE rounded

\* C22: every normalized text node carries the weight of its raw style
\* snapped to the nearest multiple of 100 within [100, 900] (400 without a
\* style), and so does every typography token.
C22_FontWeightSnapped ==
    \A out \in output :
        out.call = "getDesignTokens" =>
            LET doc == The(input)
                texts == { i \in 1..Len(out.normalized) : out.normalized[i].nodeType = "text" }
                tokens == ReturnedTokens(out)
                typography == { i \in 1..Len(tokens) : tokens[i].category = "typography" }
            IN  /\ \A i \in texts :
                      LET raw == doc[out.normalized[i].id]
                      IN  out.normalized[i].data.typography.fontWeight =
                              (IF raw.style = {} THEN 400
                               ELSE normalizeFontWeight(The(raw.style).fontWeight))
                /\ \A i \in typography :
                      tokens[i].value.fontWeight \in { 100 * k : k \in 1..9 }


(***************************************************************************)
(* Properties of the traversal (SpecTraverse)                              *)
(***************************************************************************)
\* the raw tree being traversed and its root
Tree == The(input)
TreeRoot == TreeIds[1]

\* the parent of a node in the raw tree ({} for the root)
ParentIn(doc, id) == { p \in DOMAIN doc : id \in Range(childIds(doc[p])) }

\* what normalizeNode yields for the visits, in their order
RECURSIVE NormalizedOf(_, _)
NormalizedOf(doc, visits) ==
    IF visits = <<>> THEN <<>>
    ELSE LET normalized == normalizeNode(doc, doc[Head(visits).id], Head(visits).parentId, {})
         IN  (IF normalized = {} THEN <<>> ELSE <<The(normalized)>>)
             \o NormalizedOf(doc, Tail(visits))

\* the visits made so far are sound: no node twice, each with its parent and
\* its depth in the tree, depths never decreasing, siblings in child order,
\* and the normalized nodes are those of the visits in their order
VisitsInBreadthFirstOrder(st) ==
    LET v == st.visited
    IN  /\ \A i, j \in 1..Len(v) : v[i].id = v[j].id => i = j
        /\ \A i \in 1..Len(v) :
              /\ v[i].parentId = ParentIn(Tree, v[i].id)
              /\ DepthBelow(Tree, TreeRoot, v[i].id) = {v[i].depth}
        /\ \A i, j \in 1..Len(v) : i < j =>
              /\ v[i].depth <= v[j].depth
              /\ (v[i].parentId = v[j].parentId /\ v[i].parentId # {}) =>
                    LET siblings == childIds(Tree[The(v[i].parentId)])
                    IN  indexOf(siblings, v[i].id) < indexOf(siblings, v[j].id)
        /\ st.normalizedNodes = NormalizedOf(Tree, v)

\* the traversal has returned with an empty queue, every node visited
ReturnedComplete(st) ==
    /\ st.returned
    /\ st.queue = <<>>
    /\ { st.visited[i].id : i \in 1..Len(st.visited) } = DOMAIN Tree
    /\ Len(st.visited) = Cardinality(DOMAIN Tree)

\* C23: at every moment the visits made are sound (each node at most once,
\* with its actual parent and depth, in breadth-first order, the normalized
\* nodes emitted in visiting order); a returned traversal has an empty queue
\* and has visited every node of the tree, however deep; and every traversal
\* returns.
C23_BreadthFirstTotal ==
    /\ [](\A st \in output : /\ VisitsInBreadthFirstOrder(st)
                              /\ st.returned => ReturnedComplete(st))
    /\ <>(\E st \in output : ReturnedComplete(st))

\* a traversal has returned after visiting nodes below depth 12, having
\* warned once, with an invisible node left out of the normalized nodes
C23_Witness ==
    \E st \in output :
        /\ st.call = "traverseAndNormalize"
        /\ st.returned
        /\ st.maxDepthSeen > MAX_TRAVERSAL_DEPTH + 1
        /\ st.warnings = 1
        /\ Len(st.normalizedNodes) < Len(st.visited)
        /\ Tree[st.visited[Len(st.visited)].id].children = {}


(***************************************************************************)
(* Properties of pagination (SpecApp)                                      *)
(***************************************************************************)
\* the collection a request asks for: what its filters leave of the file
FilteredCollection(in) ==
    LET file == Upstream(AppFile, in.version)
    IN  CASE in.tool = "overview" -> pageSummaries(file, in.pageId)
          [] in.tool = "frames" -> filterByName(frameInfos(file), in.name)
          [] in.tool = "components" ->
                filterByType(filterByName(componentInfos(file), in.name), in.type)

\* C29: the page a handler returns holds the items offset .. offset+limit-1
\* of the filtered collection in order, totalCount is the size of that
\* collection, and hasMore is true exactly when offset + limit < totalCount.
C29_PageOfFilteredCollection ==
    \A r \in 1..NumReqs : \A resp \in reqs[r].response :
        (reqs[r].pc = "done" /\ resp.ok) =>
            LET in == InputOf(r)
                filtered == FilteredCollection(in)
                limit == IF in.limit = {} THEN DefaultLimit ELSE The(in.limit)
                rest == Len(filtered) - in.offset
            IN  /\ Len(resp.items) = (IF rest <= 0 THEN 0 ELSE IF rest < limit THEN rest ELSE limit)
                /\ \A i \in 1..Len(resp.items) : resp.items[i] = filtered[in.offset + i]
                /\ resp.totalCount = Len(filtered)
                /\ resp.hasMore <=> (in.offset + limit < Len(filtered))


(***************************************************************************)
(* Properties of the JSON-RPC endpoint (SpecRpc)                           *)
(***************************************************************************)
\* the message is a notifications/initialized message
IsInitializedNotification(body) ==
    /\ body.kind = "object"
    /\ body.method = {Json("string", "notifications/initialized")}

\* C24: a notifications/initialized message gets no response; every other
\* message gets one response that carries the id of the message, null when
\* the message has none.
C24_NotificationsUnanswered ==
    \A out \in output :
        out.call = "handleRequest" =>
            IF IsInitializedNotification(The(input))
            THEN out.response = {}
            ELSE \E resp \in out.response :
                    /\ out.response = {resp}
                    /\ resp.id = requestIdOf(The(input))


(***************************************************************************)
(* Properties of the inferred tokens (SpecPalette)                         *)
(***************************************************************************)
\* C30: no two tokens of one inferDesignTokens run have the same name.
C30_TokenNamesDistinct ==
    \A out \in output :
        out.call = "inferDesignTokens" =>
            \A i, j \in 1..Len(out.tokens) :
                out.tokens[i].name = out.tokens[j].name => i = j

====
